---- MODULE Spec2Model ----
(***************************************************************************)
(* The augmented streaming completion pipeline of the chat application:    *)
(* the chat-completions POST handler (both revisions present in the        *)
(* repository), the search provider chain it calls (with the search route  *)
(* as a second caller), the search-intent classifier, the injection of     *)
(* search results into the prompt, the line-buffered transcoder of the     *)
(* backend's JSONL stream and the persistence of the accumulated answer.   *)
(*                                                                         *)
(* Text is a sequence of one-character strings.  A backend line is         *)
(* written in a small alphabet that keeps what JSON.parse distinguishes:   *)
(*   "{"  opens an object, content characters follow ("a" or " "), and a   *)
(*   flag closes it: "." for done=false, "!" for done=true.                *)
(* A proper prefix or suffix of a well-formed line is not well formed, as  *)
(* with JSON objects.                                                      *)
(***************************************************************************)
EXTENDS Naturals, Sequences, FiniteSets, TLC

\* ------------------------------------------------------------------ bounds
\* Number of lines in a backend response.
MaxLines == 2
\* Number of results one search provider returns at most.
MaxResults == 2

\* ------------------------------------------------------------- vocabulary
NL == "\n"
ContentChars == {"a", " "}
Whitespace == {" ", NL}

\* The two revisions of the completions route.
Handlers == {"route", "part_018"}

\* The two revisions of the search library: lib/web-search.ts with its chain
\* of three methods, and the older searchWeb of part_000.
SearchLibs == {"web-search", "part_000"}

\* The limit both completions routes pass to searchWeb.
SearchLimit == 5

\* The lines a backend response is made of (without the newline).
LineSet ==
  { <<"{", "a", ".">>,      \* {"message":{"content":"a"},"done":false}
    <<"{", " ", ".">>,      \* {"message":{"content":" "},"done":false}
    <<"{", ".">>,           \* {"message":{"content":""},"done":false}
    <<"{", "a", "!">>,      \* {"message":{"content":"a"},"done":true}
    <<"{", "!">>,           \* {"message":{"content":""},"done":true}
    <<"x">> }               \* not JSON

VARIABLES
  handler,        \* which revision of the route serves the request
  pc,             \* position of the POST handler
  request,        \* the inbound request
  httpStatus,     \* status of the Response returned (0: none yet)
  currentConversationId,
  dbMessages,     \* prisma.message rows, in insertion order
  dbUpdated,      \* conversations whose updatedAt the handler has bumped
  searchIdx,      \* searchWeb: index of the next search method
  called,         \* searchWeb: providers called so far, in order
  outcomes,       \* searchWeb: what each called provider did
  searchReturned, \* searchWeb has returned
  webResults,     \* what searchWeb returned
  searchResults,  \* the citations of the turn
  searchContext,  \* the search-result block built for the prompt ('': <<>>)
  isSearching,
  limit,          \* searchWeb: the limit argument of the call
  searchLib,      \* which revision of the search library is called
  searchThrew,    \* searchWeb let an exception reach its caller
  turnMessage,    \* classifier: the message of the turn
  turnHistory,    \* classifier: the history of the turn
  calls,          \* classifier: the calls of detectSearchIntent so far
  messages,       \* the messages array of the request body, as held in memory
  ollamaRequest,  \* the messages sent to the backend (<<>>: nothing sent)
  fetchOutcome,   \* how fetch() to the backend ended ("none": not called yet)
  hasBody,        \* ollamaResponse.body is a stream
  response,       \* bytes of the backend response
  pos,            \* bytes the reader has delivered
  buffer,         \* the transcoder's line buffer
  assistantContent,
  frames,         \* frames enqueued on the client stream
  closed,         \* controller.close() was called
  doneSeen,       \* a parsed line carried done=true
  readerDone,     \* reader.read() reported done
  readThrew,      \* reader.read() rejected
  dbFailed,       \* a write of the assistant turn rejected
  cancelled,      \* the client has disconnected from the response stream
  contentAtCancel, \* assistantContent at the moment the client disconnected
  unreadConversations, \* unread store: ids of the conversations marked unread
  listeners,      \* unread store: the subscribed listeners
  lastSnapshot,   \* per listener: << the set it was last called with >>
  lastMark,       \* per conversation: the latest mark call ("none": never)
  notified,       \* the listeners the latest store call has called
  unsubscribed    \* listeners whose unsubscribe function was called since
                  \* they last subscribed

vars == << handler, pc, request, httpStatus, currentConversationId, dbMessages,
           dbUpdated, searchIdx, called, outcomes, searchReturned, webResults,
           searchResults, searchContext, isSearching, limit, searchLib,
           searchThrew, turnMessage, turnHistory, calls, messages,
           ollamaRequest, fetchOutcome, hasBody, response, pos, buffer,
           assistantContent, frames, closed, doneSeen, readerDone, readThrew,
           dbFailed, cancelled, contentAtCancel, unreadConversations,
           listeners, lastSnapshot, lastMark, notified, unsubscribed >>

searchVars == << searchIdx, called, outcomes, searchReturned, webResults,
                 searchResults, searchContext, isSearching >>
streamVars == << hasBody, response, pos, buffer, assistantContent,
                 frames, closed, doneSeen, readerDone, readThrew, dbFailed >>
dbVars == << dbMessages, dbUpdated >>
libVars == << limit, searchLib, searchThrew >>
classifierVars == << turnMessage, turnHistory, calls >>
promptVars == << messages, ollamaRequest >>
clientVars == << cancelled, contentAtCancel >>
storeVars == << unreadConversations, listeners, lastSnapshot, lastMark,
               notified, unsubscribed >>

\* ---------------------------------------------------------- text helpers
RECURSIVE Concat(_)
Concat(ss) == IF ss = <<>> THEN <<>> ELSE Head(ss) \o Concat(Tail(ss))

\* String.prototype.trim
RECURSIVE TrimStart(_)
TrimStart(s) ==
  IF s # <<>> /\ Head(s) \in Whitespace THEN TrimStart(Tail(s)) ELSE s

RECURSIVE TrimEnd(_)
TrimEnd(s) ==
  IF s # <<>> /\ s[Len(s)] \in Whitespace
  THEN TrimEnd(SubSeq(s, 1, Len(s) - 1)) ELSE s

Trim(s) == TrimEnd(TrimStart(s))

\* String.prototype.split('\n'): always at least one piece, the last one
\* being what follows the last newline.
RECURSIVE Split(_)
Split(s) ==
  IF \A i \in 1..Len(s) : s[i] # NL THEN << s >>
  ELSE LET k == CHOOSE i \in 1..Len(s) :
                  s[i] = NL /\ \A j \in 1..(i - 1) : s[j] # NL
       IN << SubSeq(s, 1, k - 1) >> \o Split(SubSeq(s, k + 1, Len(s)))

\* lines.pop(): the pieces before the last one ...
CompleteLines(s) == LET p == Split(s) IN SubSeq(p, 1, Len(p) - 1)
\* ... and `lines.pop() || ''`, the new buffer.
Remainder(s) == LET p == Split(s) IN p[Len(p)]

\* JSON.parse of one line, as far as the route reads it: whether it parses,
\* message.content and done.  Surrounding whitespace is allowed by JSON.
JSONParse(line) ==
  LET t == Trim(line)
      wellFormed == /\ Len(t) >= 2
                    /\ t[1] = "{"
                    /\ t[Len(t)] \in {".", "!"}
                    /\ \A i \in 2..(Len(t) - 1) : t[i] \in ContentChars
  IN IF wellFormed
     THEN [ok |-> TRUE, content |-> SubSeq(t, 2, Len(t) - 1), done |-> t[Len(t)] = "!"]
     ELSE [ok |-> FALSE, content |-> <<>>, done |-> FALSE]

\* -------------------------------------------------------- client frames
\* One `data: ...\n\n` event.  kind "metadata" is a metadata object, "chunk" a
\* chat.completion.chunk object, "sentinel" the literal [DONE].
Frame(kind, conv, hasCites, cites, searching, hasContent, content, finish) ==
  [kind |-> kind, conversationId |-> conv,
   hasCitations |-> hasCites, citations |-> cites,
   isSearching |-> searching, hasContent |-> hasContent, content |-> content,
   hasRole |-> FALSE, finish_reason |-> finish]

\* data: [DONE]
DoneFrame == Frame("sentinel", "", FALSE, <<>>, "absent", FALSE, <<>>, "absent")

\* A content chunk that also carries the citations of the turn.
ChunkWithCitations(content, done) ==
  Frame("chunk", "", TRUE, searchResults, "absent", TRUE, content,
        IF done THEN "stop" ELSE "null")

\* A content chunk whose text has lost its surrounding whitespace.
TrimmedChunk(content, done) ==
  Frame("chunk", "", FALSE, <<>>, "absent", TRUE, Trim(content),
        IF done THEN "stop" ELSE "null")

\* delta: { content }, finish_reason: done ? 'stop' : null
ContentChunk(content, done) ==
  Frame("chunk", "", FALSE, <<>>, "absent", TRUE, content,
        IF done THEN "stop" ELSE "null")

\* delta: {}, finish_reason: 'stop'
FinalChunk == Frame("chunk", "", FALSE, <<>>, "absent", FALSE, <<>>, "stop")

SorryText == << "Sorry, I encountered an error processing your request." >>
FailedText == << "\n\n[Error: Failed to complete response. Please try again.]" >>

\* The notice the stream's catch block sends.
ErrorText(h) == IF h = "route" THEN SorryText ELSE FailedText

\* delta: { content: <notice> }, finish_reason: 'stop'
ErrorChunk(text) == ContentChunk(text, TRUE)

\* Whether a frame is a content delta, and the deltas' payloads in order.
IsDelta(f) == f.kind = "chunk" /\ f.hasContent

RECURSIVE Deltas(_)
Deltas(fs) ==
  IF fs = <<>> THEN <<>>
  ELSE (IF IsDelta(Head(fs)) THEN << Head(fs).content >> ELSE <<>>)
       \o Deltas(Tail(fs))

\* ------------------------------------------------------------ transcoder
\* Only part_018 has `if (ollamaData.done) break` in the loop over the lines.
BreaksOnDone(h) == h = "part_018"

\* A loop over the lines that gives up at the first line JSON.parse rejects.
RECURSIVE ProcessLinesUntilError(_, _)
ProcessLinesUntilError(lines, h) ==
  IF lines = <<>> THEN [frames |-> <<>>, text |-> <<>>, done |-> FALSE]
  ELSE LET line == Head(lines)
           d == JSONParse(line)
           parsed == Trim(line) # <<>> /\ d.ok
           emits == parsed /\ d.content # <<>>
           isDone == parsed /\ d.done
           rest == IF (BreaksOnDone(h) /\ isDone) \/ (Trim(line) # <<>> /\ ~d.ok)
                   THEN [frames |-> <<>>, text |-> <<>>, done |-> FALSE]
                   ELSE ProcessLinesUntilError(Tail(lines), h)
       IN [frames |-> (IF emits THEN << ContentChunk(d.content, d.done) >>
                       ELSE <<>>) \o rest.frames,
           text |-> (IF emits THEN d.content ELSE <<>>) \o rest.text,
           done |-> isDone \/ rest.done]

\* The `for (const line of lines)` loop of one read: the frames it enqueues,
\* the text it adds to assistantContent, whether a done=true line was parsed.
RECURSIVE ProcessLines(_, _)
ProcessLines(lines, h) ==
  IF lines = <<>> THEN [frames |-> <<>>, text |-> <<>>, done |-> FALSE]
  ELSE LET line == Head(lines)
           d == JSONParse(line)
           parsed == Trim(line) # <<>> /\ d.ok
           emits == parsed /\ d.content # <<>>
           isDone == parsed /\ d.done
           rest == IF BreaksOnDone(h) /\ isDone
                   THEN [frames |-> <<>>, text |-> <<>>, done |-> FALSE]
                   ELSE ProcessLines(Tail(lines), h)
       IN [frames |-> (IF emits THEN << ContentChunk(d.content, d.done) >>
                       ELSE <<>>) \o rest.frames,
           text |-> (IF emits THEN d.content ELSE <<>>) \o rest.text,
           done |-> isDone \/ rest.done]

\* The same loop once the client has disconnected: the stream is closed, so
\* controller.enqueue throws.  The content was added to assistantContent
\* before; the exception lands in the per-line catch, which in part_018 also
\* skips the `if (ollamaData.done) break` that follows the enqueue.
RECURSIVE ProcessLinesAfterCancel(_, _)
ProcessLinesAfterCancel(lines, h) ==
  IF lines = <<>> THEN [frames |-> <<>>, text |-> <<>>, done |-> FALSE]
  ELSE LET line == Head(lines)
           d == JSONParse(line)
           parsed == Trim(line) # <<>> /\ d.ok
           throws == parsed /\ d.content # <<>>
           isDone == parsed /\ d.done
           rest == IF BreaksOnDone(h) /\ isDone /\ ~throws
                   THEN [frames |-> <<>>, text |-> <<>>, done |-> FALSE]
                   ELSE ProcessLinesAfterCancel(Tail(lines), h)
       IN [frames |-> <<>>,
           text |-> (IF throws THEN d.content ELSE <<>>) \o rest.text,
           done |-> isDone \/ rest.done]

\* ------------------------------------------------------------- requests
UserContent == << "q" >>

\* The turns before the last one: none in the first request of a new
\* conversation, a question and its answer in a request of an existing one.
EarlierTurns ==
  << [role |-> "user", content |-> << "p" >>],
     [role |-> "assistant", content |-> << "r" >>] >>

\* body.messages
InboundMessages(r) ==
  IF ~r.hasMessages THEN <<>>
  ELSE (IF r.conversationId = "" THEN <<>> ELSE EarlierTurns)
       \o << [role |-> r.lastRole, content |-> UserContent] >>

Requests ==
  [authenticated : BOOLEAN, hasMessages : BOOLEAN,
   conversationId : {"", "conv-req"}, lastRole : {"user", "assistant"},
   enableWebSearch : BOOLEAN]

\* Backend responses: up to MaxLines newline-terminated lines.
LineSeqs == UNION { [1..n -> LineSet] : n \in 0..MaxLines }
Wire(ls) == Concat([i \in 1..Len(ls) |-> ls[i] \o << NL >>])
Responses == { Wire(ls) : ls \in LineSeqs }

\* ------------------------------------------------------ provider chain
\* searchMethods of searchWeb, in the order of the array.
SearchMethods == << "DuckDuckGo", "Brave", "SearX" >>

\* The scrapers of part_000's searchWeb, in the order of the code.
Scrapers == << "DuckDuckGo", "Google" >>

Min(a, b) == IF a <= b THEN a ELSE b

\* A provider that keeps every entry of the page it fetched.
KeepAll(raw, lim) == raw

\* `if (index >= limit) return false` in the scrapers,
\* `results.slice(0, limit)` in searchWithSearX: how many of the `raw` entries
\* of the fetched page a provider keeps.
Kept(raw, lim) == Min(raw, lim)

\* A provider call throws, or fetches a page of `raw` entries and returns the
\* results it keeps of them.  (An entry lacking a title, url or snippet is
\* dropped by the scrapers; that only shortens the list.)
ResultList(p, n) == [i \in 1..n |-> [provider |-> p, rank |-> i]]
ProviderOutcomes(p, lim) ==
  { [threw |-> TRUE, raw |-> 0, results |-> <<>>] }
  \cup { [threw |-> FALSE, raw |-> k, results |-> ResultList(p, Kept(k, lim))] :
           k \in 0..MaxResults }

\* A chain that takes any answer, even an empty one, as final.
ProviderAnswered(out) == ~out.threw

\* `results && results.length > 0`
ProviderSucceeded(out) == ~out.threw /\ Len(out.results) > 0

\* A searchWeb whose catch block throws the provider's error again.
Rethrows(lib) == "propagate"

\* What searchWeb does with an exception of a provider: web-search.ts catches
\* it inside the loop and goes on with the next method ("next"); part_000
\* catches it around the whole body and returns [] ("empty").
\* ("propagate" would let it reach the caller.)
ThrowHandling(lib) == IF lib = "web-search" THEN "next" ELSE "empty"

\* Citations numbered by the index of the result, from 0.
ZeroBasedCitations(results) ==
  [i \in 1..Len(results) |->
     [id |-> "cite-" \o ToString(i - 1), result |-> results[i],
      usedInResponse |-> TRUE]]

\* results.map((result, index) => ({ id: `cite-${index + 1}`, ... }))
Citations(results) ==
  [i \in 1..Len(results) |->
     [id |-> "cite-" \o ToString(i), result |-> results[i],
      usedInResponse |-> TRUE]]

\* ------------------------------------------------------ context injection
\* A prompt text is a sequence of pieces: characters, or longer fixed texts.
\* title, url and snippet of a result stand together as one piece.
ResultText(result) == result.provider \o "#" \o ToString(result.rank)

\* searchResults.map((cite, idx) => `[${idx + 1}] ${cite.title}\n...`)
RECURSIVE ContextEntries(_, _)
ContextEntries(cites, idx) ==
  IF idx > Len(cites) THEN <<>>
  ELSE << "[" \o ToString(idx) \o "]", ResultText(cites[idx].result) >>
       \o ContextEntries(cites, idx + 1)

\* searchContext, as built from the citations of a non-empty result list.
SearchContextText(h, cites) ==
  IF h = "route"
  THEN << "=== CURRENT WEB SEARCH RESULTS ===" >>
       \o ContextEntries(cites, 1)
       \o << "=== END OF SEARCH RESULTS ===",
             "IMPORTANT: Use these current search results" >>
  ELSE << "Web Search Results for" >>
       \o ContextEntries(cites, 1)
       \o << "Please use these search results" >>

\* The system prompt of a turn without search results.
BasePrompt(h) ==
  IF h = "route"
  THEN << "You are a helpful AI assistant. Provide concise, direct answers based on your knowledge." >>
  ELSE << "You are a helpful AI assistant. Provide concise, direct answers. Be brief unless the user asks for more detail." >>

\* A system prompt that always asks for citations.
CitingSystemPrompt(h, context) ==
  BasePrompt(h) \o << " When web search results are provided, cite your sources." >>

\* systemMessage.content
SystemPrompt(h, context) ==
  IF h = "route"
  THEN (IF context # <<>>
        THEN << "You are a helpful AI assistant with access to current web search results." >>
        ELSE BasePrompt(h))
  ELSE BasePrompt(h)
       \o (IF context # <<>>
           THEN << " When web search results are provided, use them" >>
           ELSE <<>>)

\* messages.map(msg => ({ role: msg.role, content: msg.content }))
CopyOf(msgs) ==
  [i \in 1..Len(msgs) |-> [role |-> msgs[i].role, content |-> msgs[i].content]]

\* Add search context to the last user message if available.
AddSearchContext(msgs, context) ==
  IF context # <<>> /\ Len(msgs) > 1 /\ msgs[Len(msgs)].role = "user"
  THEN [msgs EXCEPT ![Len(msgs)].content = @ \o context]
  ELSE msgs

\* messagesForOllama, as put in the body of the backend request.
MessagesForOllama(h, msgs, context) ==
  AddSearchContext(
    << [role |-> "system", content |-> SystemPrompt(h, context)] >>
      \o CopyOf(msgs),
    context)

\* A handler that spreads the inbound message objects themselves into
\* messagesForOllama: the append reaches the inbound array.
SharedWithOutgoing(msgs, context) ==
  Tail(AddSearchContext(<< [role |-> "system", content |-> <<>>] >> \o msgs,
                        context))

\* The inbound array after the injection: the outgoing array holds copies,
\* so the append does not reach it.
MessagesAfterInjection(msgs, context) == msgs

\* ---------------------------------------------------- regular expressions
\* The characters of a string literal, as a sequence.
Chars(str) == [i \in 1..Len(str) |-> SubSeq(str, i, i)]

\* The character classes of the classifier's regular expressions.
Lower ==
  { "a", "b", "c", "d", "e", "f", "g", "h", "i", "j", "k", "l", "m",
    "n", "o", "p", "q", "r", "s", "t", "u", "v", "w", "x", "y", "z" }
Upper ==
  { "A", "B", "C", "D", "E", "F", "G", "H", "I", "J", "K", "L", "M",
    "N", "O", "P", "Q", "R", "S", "T", "U", "V", "W", "X", "Y", "Z" }
Digit == { "0", "1", "2", "3", "4", "5", "6", "7", "8", "9" }
LowerSeq ==
  << "a", "b", "c", "d", "e", "f", "g", "h", "i", "j", "k", "l", "m",
     "n", "o", "p", "q", "r", "s", "t", "u", "v", "w", "x", "y", "z" >>
UpperSeq ==
  << "A", "B", "C", "D", "E", "F", "G", "H", "I", "J", "K", "L", "M",
     "N", "O", "P", "Q", "R", "S", "T", "U", "V", "W", "X", "Y", "Z" >>
\* \w, and what `.` matches in a message (anything but a newline).
WordChar == Lower \cup Upper \cup Digit \cup {"_"}
AnyChar == WordChar \cup {" ", "?", "$", "'", ".", ","}

\* String.prototype.toLowerCase, and the case folding of the `i` flag.
LowerOf ==
  [c \in Upper |-> LowerSeq[CHOOSE i \in 1..Len(UpperSeq) : UpperSeq[i] = c]]
UpperOf ==
  [c \in Lower |-> UpperSeq[CHOOSE i \in 1..Len(LowerSeq) : LowerSeq[i] = c]]
ToLower(c) == IF c \in Upper THEN LowerOf[c] ELSE c
ToUpper(c) == IF c \in Lower THEN UpperOf[c] ELSE c
ToLowerCase(s) == [i \in 1..Len(s) |-> ToLower(s[i])]

\* A regular expression is a sequence of atoms: an alternation of literals,
\* a character class repeated min..max times or min times and more, \b, ^, $.
Alt(ws) == [t |-> "alt", alts |-> ws, cls |-> {}, min |-> 0, max |-> 0]
Rep(cls, m, n) == [t |-> "rep", alts |-> {}, cls |-> cls, min |-> m, max |-> n]
Many(cls, m) == [t |-> "many", alts |-> {}, cls |-> cls, min |-> m, max |-> 0]
WordBoundary == [t |-> "b", alts |-> {}, cls |-> {}, min |-> 0, max |-> 0]
StartOfInput == [t |-> "start", alts |-> {}, cls |-> {}, min |-> 0, max |-> 0]
EndOfInput == [t |-> "end", alts |-> {}, cls |-> {}, min |-> 0, max |-> 0]

\* The literal w stands at position i of s (ci: ignoring case).
LitAt(s, i, w, ci) ==
  /\ i + Len(w) - 1 <= Len(s)
  /\ \A k \in 1..Len(w) :
       IF ci THEN ToLower(s[i + k - 1]) = ToLower(w[k])
       ELSE s[i + k - 1] = w[k]
InClass(c, cls, ci) ==
  c \in cls \/ (ci /\ (ToLower(c) \in cls \/ ToUpper(c) \in cls))
IsWordAt(s, i) == i >= 1 /\ i <= Len(s) /\ s[i] \in WordChar
BoundaryAt(s, i) == IsWordAt(s, i - 1) # IsWordAt(s, i)

\* The positions right after a match of `pat` that starts at position i of s.
RECURSIVE Ends(_, _, _, _)
Ends(s, i, pat, ci) ==
  IF pat = <<>> THEN {i}
  ELSE
    LET a == Head(pat)
        rest == Tail(pat)
        left == Len(s) - i + 1
        most == IF a.t = "rep" THEN Min(a.max, left) ELSE left
    IN CASE a.t = "alt" ->
              UNION { Ends(s, i + Len(w), rest, ci) :
                      w \in { v \in a.alts : LitAt(s, i, v, ci) } }
         [] a.t \in {"rep", "many"} ->
              UNION { Ends(s, i + n, rest, ci) :
                      n \in { m \in a.min..most :
                              \A k \in i..(i + m - 1) :
                                InClass(s[k], a.cls, ci) } }
         [] a.t = "b" -> IF BoundaryAt(s, i) THEN Ends(s, i, rest, ci) ELSE {}
         [] a.t = "start" -> IF i = 1 THEN Ends(s, i, rest, ci) ELSE {}
         [] a.t = "end" ->
              IF i = Len(s) + 1 THEN Ends(s, i, rest, ci) ELSE {}

\* RegExp.prototype.test
Test(pat, ci, s) == \E i \in 1..(Len(s) + 1) : Ends(s, i, pat, ci) # {}

\* The text of the first match, as message.match(pat)[0] gives it: leftmost,
\* and the longest there.
FirstMatch(pat, ci, s) ==
  LET i == CHOOSE k \in 1..(Len(s) + 1) :
             /\ Ends(s, k, pat, ci) # {}
             /\ \A j \in 1..(k - 1) : Ends(s, j, pat, ci) = {}
      es == Ends(s, i, pat, ci)
      e == CHOOSE k \in es : \A j \in es : j <= k
  IN SubSeq(s, i, e - 1)

\* String.prototype.includes
Includes(s, w) == \E i \in 1..(Len(s) + 1) : LitAt(s, i, w, FALSE)

\* ------------------------------------------------------- intent classifier
\* High confidence patterns - definitely need search.
HighConfidencePatterns ==
  { \* /what.{0,10}(weather|temperature|forecast)/i
    << Alt({Chars("what")}),
       Rep(AnyChar, 0, 10),
       Alt({Chars("weather"), Chars("temperature"), Chars("forecast")}) >>,
    \* /how.{0,10}(weather|hot|cold|warm)/i
    << Alt({Chars("how")}),
       Rep(AnyChar, 0, 10),
       Alt({Chars("weather"), Chars("hot"), Chars("cold"), Chars("warm")}) >>,
    \* /(current|today|now|latest|recent).{0,20}(news|events?|update)/i
    << Alt({Chars("current"), Chars("today"), Chars("now"), Chars("latest"),
            Chars("recent")}),
       Rep(AnyChar, 0, 20),
       Alt({Chars("news"), Chars("event"), Chars("events"), Chars("update")}) >>,
    \* /what.{0,10}happening.{0,10}(in|at|with)/i
    << Alt({Chars("what")}),
       Rep(AnyChar, 0, 10),
       Alt({Chars("happening")}),
       Rep(AnyChar, 0, 10),
       Alt({Chars("in"), Chars("at"), Chars("with")}) >>,
    \* /(stock|price|cost).{0,10}(of|for)\s+\w+/i
    << Alt({Chars("stock"), Chars("price"), Chars("cost")}),
       Rep(AnyChar, 0, 10),
       Alt({Chars("of"), Chars("for")}),
       Many(Whitespace, 1),
       Many(WordChar, 1) >>,
    \* /score.{0,10}(game|match|sport)/i
    << Alt({Chars("score")}),
       Rep(AnyChar, 0, 10),
       Alt({Chars("game"), Chars("match"), Chars("sport")}) >>,
    \* /(hours|open|closed).{0,10}(for|at)\s+\w+/i
    << Alt({Chars("hours"), Chars("open"), Chars("closed")}),
       Rep(AnyChar, 0, 10),
       Alt({Chars("for"), Chars("at")}),
       Many(Whitespace, 1),
       Many(WordChar, 1) >>,
    \* /directions?.{0,10}(to|from)/i
    << Alt({Chars("direction"), Chars("directions")}),
       Rep(AnyChar, 0, 10),
       Alt({Chars("to"), Chars("from")}) >>,
    \* /\b(2024|2025|this year|this month|today|tomorrow|yesterday)\b/i
    << WordBoundary,
       Alt({Chars("2024"), Chars("2025"), Chars("this year"),
            Chars("this month"), Chars("today"), Chars("tomorrow"),
            Chars("yesterday")}),
       WordBoundary >>,
    \* /is\s+\w+\s+(open|closed)/i
    << Alt({Chars("is")}),
       Many(Whitespace, 1),
       Many(WordChar, 1),
       Many(Whitespace, 1),
       Alt({Chars("open"), Chars("closed")}) >>,
    \* /find.{0,10}(information|details|facts).{0,10}about/i
    << Alt({Chars("find")}),
       Rep(AnyChar, 0, 10),
       Alt({Chars("information"), Chars("details"), Chars("facts")}),
       Rep(AnyChar, 0, 10),
       Alt({Chars("about")}) >> }

\* /\b(who|what|when|where|how much|how many)\b/i
QuestionPattern ==
  << WordBoundary,
     Alt({Chars("who"), Chars("what"), Chars("when"), Chars("where"),
          Chars("how much"), Chars("how many")}),
     WordBoundary >>

\* /\b(in|at|near)\s+[A-Z][a-z]+/i
LocationPattern ==
  << WordBoundary,
     Alt({Chars("in"), Chars("at"), Chars("near")}),
     Many(Whitespace, 1),
     Rep(Upper, 1, 1),
     Many(Lower, 1) >>

\* /\b\d{4}\b/
YearPattern ==
  << WordBoundary,
     Rep(Digit, 4, 4),
     WordBoundary >>

\* /\$\d+|\d+\s*(dollars?|euros?|pounds?)/i: the two alternatives
PricePattern ==
  << Alt({Chars("$")}),
     Many(Digit, 1) >>
AmountPattern ==
  << Many(Digit, 1),
     Many(Whitespace, 0),
     Alt({Chars("dollar"), Chars("dollars"), Chars("euro"), Chars("euros"),
          Chars("pound"), Chars("pounds")}) >>

\* /\b(company|product|service|website|app)\b/i
EntityPattern ==
  << WordBoundary,
     Alt({Chars("company"), Chars("product"), Chars("service"),
          Chars("website"), Chars("app")}),
     WordBoundary >>

\* /tell me about/i, /explain/i, /\b[A-Z][a-z]+\b/
TellMeAboutPattern ==
  << Alt({Chars("tell me about")}) >>
ExplainPattern ==
  << Alt({Chars("explain")}) >>
ProperNounPattern ==
  << WordBoundary,
     Rep(Upper, 1, 1),
     Many(Lower, 1),
     WordBoundary >>

\* /what is\s+\w+/i, /how does\s+\w+/i
WhatIsPattern ==
  << Alt({Chars("what is")}),
     Many(Whitespace, 1),
     Many(WordChar, 1) >>
HowDoesPattern ==
  << Alt({Chars("how does")}),
     Many(Whitespace, 1),
     Many(WordChar, 1) >>

\* /\b(facts?|information|details?)\b/i
FactsPattern ==
  << WordBoundary,
     Alt({Chars("fact"), Chars("facts"), Chars("information"),
          Chars("detail"), Chars("details")}),
     WordBoundary >>

\* Year references not in history.
YearNotInHistory(message, history) ==
  /\ Test(YearPattern, FALSE, message)
  /\ ~\E i \in 1..Len(history) :
        Includes(history[i].content, FirstMatch(YearPattern, FALSE, message))

\* Medium confidence - questions about specific entities/facts.
MediumConfidenceIndicators(message, history) ==
  << Includes(message, Chars("?")) /\ Test(QuestionPattern, TRUE, message),
     Test(LocationPattern, TRUE, message),
     YearNotInHistory(message, history),
     Test(PricePattern, TRUE, message) \/ Test(AmountPattern, TRUE, message),
     Test(EntityPattern, TRUE, message) /\ Includes(message, Chars("?")) >>

\* Low confidence - general knowledge questions that might benefit from search.
LowConfidenceIndicators(message) ==
  << Test(TellMeAboutPattern, TRUE, message),
     Test(ExplainPattern, TRUE, message)
       /\ Test(ProperNounPattern, FALSE, message),
     Test(WhatIsPattern, TRUE, message),
     Test(HowDoesPattern, TRUE, message),
     Test(FactsPattern, TRUE, message) >>

\* indicators.filter(Boolean).length
CountTrue(indicators) ==
  Cardinality({ i \in 1..Len(indicators) : indicators[i] })

\* Topics that change frequently and likely need current data.
DynamicTopics ==
  { Chars("weather"), Chars("temperature"), Chars("forecast"), Chars("rain"),
    Chars("snow"), Chars("storm"), Chars("news"), Chars("event"),
    Chars("happening"), Chars("update"), Chars("announce"), Chars("price"),
    Chars("cost"), Chars("stock"), Chars("market"), Chars("trading"),
    Chars("score"), Chars("game"), Chars("match"), Chars("tournament"),
    Chars("season"), Chars("traffic"), Chars("delay"), Chars("accident"),
    Chars("construction"), Chars("hours"), Chars("open"), Chars("closed"),
    Chars("schedule"), Chars("availability"), Chars("release"),
    Chars("launch"), Chars("available"), Chars("coming"), Chars("trend"),
    Chars("viral"), Chars("popular"), Chars("top") }

CheckIfNeedsCurrent(message, history) ==
  \E topic \in DynamicTopics : Includes(ToLowerCase(message), topic)

\* A classifier for which a single medium indicator is enough.
AnyMediumIndicator(count) == count >= 1

\* if (mediumConfidenceCount >= 2)
MediumTier(count) == count >= 2

\* Analyzes if the message requires current/external information; the
\* confidence is counted in tenths.
AnalyzeSearchNeed(message, history) ==
  IF \E pattern \in HighConfidencePatterns : Test(pattern, TRUE, message)
  THEN [shouldSearch |-> TRUE, confidence |-> 9]
  ELSE IF MediumTier(CountTrue(MediumConfidenceIndicators(message, history)))
  THEN [shouldSearch |-> TRUE, confidence |-> 7]
  ELSE IF /\ CountTrue(LowConfidenceIndicators(message)) >= 1
          /\ Len(message) > 20
          /\ CheckIfNeedsCurrent(message, history)
  THEN [shouldSearch |-> TRUE, confidence |-> 5]
  ELSE [shouldSearch |-> FALSE, confidence |-> 0]

\* /^(what|who|where|when|why|how|is|are|was|were|do|does|did|can|could|would|will)\s+/gi
LeadingQuestionWord ==
  << StartOfInput,
     Alt({Chars("what"), Chars("who"), Chars("where"), Chars("when"),
          Chars("why"), Chars("how"), Chars("is"), Chars("are"),
          Chars("was"), Chars("were"), Chars("do"), Chars("does"),
          Chars("did"), Chars("can"), Chars("could"), Chars("would"),
          Chars("will")}),
     Many(Whitespace, 1) >>

\* /^(the|and|but|for|with|from|about|that|this|these|those)$/i
StopWord ==
  << StartOfInput,
     Alt({Chars("the"), Chars("and"), Chars("but"), Chars("for"),
          Chars("with"), Chars("from"), Chars("about"), Chars("that"),
          Chars("this"), Chars("these"), Chars("those")}),
     EndOfInput >>

\* /weather|temperature|forecast/i and /in|at|for/i
WeatherPattern ==
  << Alt({Chars("weather"), Chars("temperature"), Chars("forecast")}) >>
PlacePattern ==
  << Alt({Chars("in"), Chars("at"), Chars("for")}) >>

\* message.replace(pat, ''), for a pattern anchored at the start.
StripStart(pat, ci, s) ==
  LET es == Ends(s, 1, pat, ci) IN
  IF es = {} THEN s
  ELSE SubSeq(s, (CHOOSE e \in es : \A j \in es : j <= e), Len(s))

\* message.replace(/\?$/, '')
StripQuestionMark(s) ==
  IF s # <<>> /\ s[Len(s)] = "?" THEN SubSeq(s, 1, Len(s) - 1) ELSE s

\* query.split(/\s+/)
RECURSIVE Words(_)
Words(s) ==
  IF s = <<>> THEN << <<>> >>
  ELSE IF Head(s) \in Whitespace
  THEN IF Len(s) > 1 /\ s[2] \in Whitespace THEN Words(Tail(s))
       ELSE << <<>> >> \o Words(Tail(s))
  ELSE LET r == Words(Tail(s)) IN << << Head(s) >> \o Head(r) >> \o Tail(r)

\* words.join(' ')
RECURSIVE Join(_)
Join(ws) ==
  IF ws = <<>> THEN <<>>
  ELSE IF Len(ws) = 1 THEN Head(ws)
  ELSE Head(ws) \o << " " >> \o Join(Tail(ws))

\* Extract noun phrases and important keywords.
ImportantWord(word) == Len(word) > 3 /\ ~Test(StopWord, TRUE, word)
ImportantWords(query) ==
  LET kept == SelectSeq(Words(query), ImportantWord)
  IN Join(SubSeq(kept, 1, Min(8, Len(kept))))

\* Extracts the most relevant search query from the user message.
ExtractSearchQuery(message) ==
  LET stripped ==
        Trim(StripQuestionMark(StripStart(LeadingQuestionWord, TRUE, message)))
      query ==
        IF Len(stripped) > 100 THEN ImportantWords(stripped) ELSE stripped
  IN IF /\ Test(WeatherPattern, TRUE, message)
        /\ ~Test(PlacePattern, TRUE, query)
     THEN Trim(StripQuestionMark(message))
     ELSE query

\* A classifier that remembers across calls: every second call abstains (as
\* with a pattern object kept between calls that carries its last position).
DetectWithMemory(userMessage, conversationHistory) ==
  LET needsSearch == AnalyzeSearchNeed(userMessage, conversationHistory) IN
  IF needsSearch.shouldSearch /\ Len(calls) % 2 = 0
  THEN [shouldSearch |-> TRUE, hasQuery |-> TRUE,
        searchQuery |-> ExtractSearchQuery(userMessage),
        confidence |-> needsSearch.confidence]
  ELSE [shouldSearch |-> FALSE, hasQuery |-> FALSE, searchQuery |-> <<>>,
        confidence |-> 0]

\* Analyzes user intent to determine if web search is needed.  Without a
\* search the result carries no searchQuery.
DetectSearchIntent(userMessage, conversationHistory) ==
  LET needsSearch == AnalyzeSearchNeed(userMessage, conversationHistory) IN
  IF needsSearch.shouldSearch
  THEN [shouldSearch |-> TRUE, hasQuery |-> TRUE,
        searchQuery |-> ExtractSearchQuery(userMessage),
        confidence |-> needsSearch.confidence]
  ELSE [shouldSearch |-> FALSE, hasQuery |-> FALSE, searchQuery |-> <<>>,
        confidence |-> 0]

\* --------------------------------------------- lib/unread-store.ts: state
MaxConversations == 2
MaxListeners == 2
ConversationIds == { "conv-" \o ToString(i) : i \in 1..MaxConversations }
UnreadListeners == { "listener-" \o ToString(i) : i \in 1..MaxListeners }

\* new UnreadStore(): both sets are empty and no listener has been called.
UnreadStoreInit ==
  /\ unreadConversations = {}
  /\ listeners = {}
  /\ lastSnapshot = [l \in UnreadListeners |-> <<>>]
  /\ lastMark = [id \in ConversationIds |-> "none"]
  /\ notified = {}
  /\ unsubscribed = {}

\* ----------------------------------------------------------------- Init
\* The handler has been entered with a request; nothing is stored yet for
\* the turn.  The route revision does not read enableWebSearch.
Init ==
  /\ handler \in Handlers
  /\ request \in { r \in Requests : handler = "route" => r.enableWebSearch }
  /\ pc = "start"
  /\ httpStatus = 0
  /\ currentConversationId = ""
  /\ dbMessages = <<>>
  /\ dbUpdated = <<>>
  /\ searchIdx = 1
  /\ called = <<>>
  /\ outcomes = <<>>
  /\ searchReturned = FALSE
  /\ webResults = <<>>
  /\ searchResults = <<>>
  /\ searchContext = <<>>
  /\ isSearching = FALSE
  /\ limit = 0
  /\ searchLib = "web-search"
  /\ searchThrew = FALSE
  /\ turnMessage = <<>>
  /\ turnHistory = <<>>
  /\ calls = <<>>
  /\ messages = InboundMessages(request)
  /\ ollamaRequest = <<>>
  /\ fetchOutcome = "none"
  /\ hasBody = FALSE
  /\ response = <<>>
  /\ pos = 0
  /\ buffer = <<>>
  /\ assistantContent = <<>>
  /\ frames = <<>>
  /\ closed = FALSE
  /\ doneSeen = FALSE
  /\ readerDone = FALSE
  /\ readThrew = FALSE
  /\ dbFailed = FALSE
  /\ cancelled = FALSE
  /\ contentAtCancel = <<>>
  /\ UnreadStoreInit

\* `return new Response(text, { status })`: the handler ends without a stream.
Return(status) ==
  /\ httpStatus' = status
  /\ pc' = "end"

\* --------------------------------------------------- validation, storage
\* if (!session?.user?.id) return new Response('Unauthorized', { status: 401 })
Unauthorized ==
  /\ pc = "start"
  /\ ~request.authenticated
  /\ Return(401)
  /\ UNCHANGED << handler, storeVars, clientVars, classifierVars, promptVars, libVars,
                  request, currentConversationId, dbVars, searchVars,
                  fetchOutcome, streamVars >>

\* if (!messages || messages.length === 0) return new Response(..., 400)
MessagesRequired ==
  /\ pc = "start"
  /\ request.authenticated
  /\ ~request.hasMessages
  /\ Return(400)
  /\ UNCHANGED << handler, storeVars, clientVars, classifierVars, promptVars, libVars,
                  request, currentConversationId, dbVars, searchVars,
                  fetchOutcome, streamVars >>

\* Create new conversation if none exists; prisma.conversation.create may
\* reject, which the outer catch answers with 500.
ResolveConversation ==
  /\ pc = "start"
  /\ request.authenticated
  /\ request.hasMessages
  /\ IF request.conversationId # ""
     THEN /\ currentConversationId' = request.conversationId
          /\ pc' = "userMessage"
          /\ UNCHANGED httpStatus
     ELSE \E created \in BOOLEAN :
            IF created
            THEN /\ currentConversationId' = "conv-new"
                 /\ pc' = "userMessage"
                 /\ UNCHANGED httpStatus
            ELSE /\ Return(500)
                 /\ UNCHANGED currentConversationId
  /\ UNCHANGED << handler, storeVars, clientVars, classifierVars, promptVars, libVars,
                  request, dbVars, searchVars, fetchOutcome, streamVars >>

\* A handler that looks for the wrong role before saving.
SavesAssistantTurnsOnly(role) == role = "assistant"

\* if (lastUserMessage.role === 'user')
ShouldSaveUserMessage(role) == role = "user"

\* The row of the user's message.
UserMessageRow(conv) ==
  [conversationId |-> conv, role |-> "user", content |-> UserContent,
   hasCitations |-> FALSE, citations |-> <<>>]

\* Save user message to database (awaited; a rejection ends in the outer catch).
SaveUserMessage ==
  /\ pc = "userMessage"
  /\ IF ShouldSaveUserMessage(request.lastRole)
     THEN \E stored \in BOOLEAN :
            IF stored
            THEN /\ dbMessages' = Append(dbMessages, UserMessageRow(currentConversationId))
                 /\ pc' = "intent"
                 /\ UNCHANGED httpStatus
            ELSE /\ Return(500)
                 /\ UNCHANGED dbMessages
     ELSE /\ pc' = "intent"
          /\ UNCHANGED << httpStatus, dbMessages >>
  /\ UNCHANGED << handler, storeVars, clientVars, classifierVars, promptVars, libVars,
                  request, currentConversationId, dbUpdated, searchVars,
                  fetchOutcome, streamVars >>

\* ------------------------------------------------- intent, provider chain
\* What the classifier can answer: shouldSearch and the confidence in tenths.
Intents ==
  { [shouldSearch |-> FALSE, confidence |-> 0],
    [shouldSearch |-> TRUE, confidence |-> 5],
    [shouldSearch |-> TRUE, confidence |-> 7],
    [shouldSearch |-> TRUE, confidence |-> 9] }

\* Whether the handler classifies the turn at all.
Classifies(h, r) ==
  IF h = "route" THEN r.lastRole = "user"
  ELSE r.enableWebSearch /\ r.lastRole = "user"

\* searchCheck.shouldSearch (route)
\* searchIntent.shouldSearch && searchIntent.confidence >= 0.5 (part_018)
Triggers(h, intent) ==
  IF h = "route" THEN intent.shouldSearch
  ELSE intent.shouldSearch /\ intent.confidence >= 5

\* Check if web search is needed.
DetectIntent ==
  /\ pc = "intent"
  /\ IF Classifies(handler, request)
     THEN \E intent \in Intents :
            IF Triggers(handler, intent)
            THEN /\ pc' = "search"
                 /\ isSearching' = (handler = "part_018")
                 /\ limit' = SearchLimit
            ELSE /\ pc' = "fetch"
                 /\ UNCHANGED << isSearching, limit >>
     ELSE /\ pc' = "fetch"
          /\ UNCHANGED << isSearching, limit >>
  /\ UNCHANGED << handler, storeVars, clientVars, classifierVars, promptVars, request,
                  httpStatus, currentConversationId, dbVars, searchIdx,
                  called, outcomes, searchReturned, webResults, searchResults,
                  searchContext, searchLib, searchThrew, fetchOutcome,
                  streamVars >>

\* searchWeb returns `results` to its caller.  The completions handler builds
\* the citations and the search context from a non-empty list (and, in
\* part_018, clears isSearching on an empty one) and goes on to the backend;
\* the search route answers 200 with the list.
SearchReturns(results) ==
  /\ searchReturned' = TRUE
  /\ webResults' = results
  /\ searchResults' = Citations(results)
  /\ searchContext' = IF Len(results) > 0
                      THEN SearchContextText(handler, Citations(results))
                      ELSE <<>>
  /\ isSearching' = (isSearching /\ Len(results) > 0)
  /\ IF handler = "part_015" THEN Return(200)
     ELSE pc' = "fetch" /\ UNCHANGED httpStatus
  /\ UNCHANGED << searchIdx, searchThrew >>

\* An exception of searchWeb in its caller: route.ts catches it around the
\* search and goes on without results; part_018 and the search route have only
\* their outer catch, which answers 500.
SearchThrows ==
  /\ searchThrew' = TRUE
  /\ IF handler = "route" THEN pc' = "fetch" /\ UNCHANGED httpStatus
     ELSE Return(500)
  /\ UNCHANGED << searchIdx, searchReturned, webResults, searchResults,
                  searchContext, isSearching >>

\* The loop goes on with the next method.
NextMethod ==
  /\ searchIdx' = searchIdx + 1
  /\ UNCHANGED << pc, httpStatus, searchReturned, webResults, searchResults,
                  searchContext, isSearching, searchThrew >>

\* One turn of `for (const searchMethod of searchMethods)`: the method is
\* awaited inside try/catch; a non-empty result list is returned at once,
\* anything else moves to the next method, and after the last one searchWeb
\* returns [].
CallProvider ==
  /\ pc = "search"
  /\ searchLib = "web-search"
  /\ searchIdx <= Len(SearchMethods)
  /\ \E out \in ProviderOutcomes(SearchMethods[searchIdx], limit) :
       /\ called' = Append(called, SearchMethods[searchIdx])
       /\ outcomes' = Append(outcomes, out)
       /\ IF out.threw /\ ThrowHandling(searchLib) = "propagate"
          THEN SearchThrows
          ELSE IF out.threw /\ ThrowHandling(searchLib) = "empty"
          THEN SearchReturns(<<>>)
          ELSE IF ProviderSucceeded(out)
          THEN SearchReturns(out.results)
          ELSE IF searchIdx = Len(SearchMethods)
               THEN SearchReturns(<<>>)
               ELSE NextMethod
  /\ UNCHANGED << handler, storeVars, clientVars, classifierVars, promptVars, request,
                  currentConversationId, dbVars, limit, searchLib,
                  fetchOutcome, streamVars >>

\* What part_000's `results` array holds after the scrapers called so far.
RECURSIVE Scraped(_)
Scraped(outs) ==
  IF outs = <<>> THEN <<>> ELSE Head(outs).results \o Scraped(Tail(outs))

\* One scraper of part_000's searchWeb: DuckDuckGo first, and Google only
\* `if (results.length === 0)`; both push to the same array, which is
\* returned; the try/catch around the whole body returns [] on any exception.
CallScraper ==
  /\ pc = "search"
  /\ searchLib = "part_000"
  /\ searchIdx <= Len(Scrapers)
  /\ \E out \in ProviderOutcomes(Scrapers[searchIdx], limit) :
       /\ called' = Append(called, Scrapers[searchIdx])
       /\ outcomes' = Append(outcomes, out)
       /\ IF out.threw /\ ThrowHandling(searchLib) = "propagate"
          THEN SearchThrows
          ELSE IF out.threw
          THEN SearchReturns(<<>>)
          ELSE IF Len(Scraped(outcomes')) = 0 /\ searchIdx < Len(Scrapers)
               THEN NextMethod
               ELSE SearchReturns(Scraped(outcomes'))
  /\ UNCHANGED << handler, storeVars, clientVars, classifierVars, promptVars, request,
                  currentConversationId, dbVars, limit, searchLib,
                  fetchOutcome, streamVars >>

\* ------------------------------------------------------- the search route
\* POST of the search route (part_015): the caller chooses query and limit.
SearchRequests ==
  [authenticated : BOOLEAN, hasQuery : BOOLEAN, limit : 0..MaxResults]

\* if (!session?.user?.id) return NextResponse.json(..., { status: 401 })
SearchUnauthorized ==
  /\ handler = "part_015"
  /\ pc = "start"
  /\ ~request.authenticated
  /\ Return(401)
  /\ UNCHANGED << handler, storeVars, clientVars, classifierVars, promptVars, libVars,
                  request, currentConversationId, dbVars, searchVars,
                  fetchOutcome, streamVars >>

\* if (!query) return NextResponse.json(..., { status: 400 })
QueryRequired ==
  /\ handler = "part_015"
  /\ pc = "start"
  /\ request.authenticated
  /\ ~request.hasQuery
  /\ Return(400)
  /\ UNCHANGED << handler, storeVars, clientVars, classifierVars, promptVars, libVars,
                  request, currentConversationId, dbVars, searchVars,
                  fetchOutcome, streamVars >>

\* const results = await searchWeb(query, limit)
SearchApiCall ==
  /\ handler = "part_015"
  /\ pc = "start"
  /\ request.authenticated
  /\ request.hasQuery
  /\ pc' = "search"
  /\ limit' = request.limit
  /\ UNCHANGED << handler, storeVars, clientVars, classifierVars, promptVars, request,
                  httpStatus, currentConversationId, dbVars, searchVars,
                  searchLib, searchThrew, fetchOutcome, streamVars >>

\* ------------------------------------------------------------- dispatch
\* Make request to Ollama.  fetch rejecting is answered by the outer catch
\* with 500, a non-OK status with 503; otherwise the stream is built and
\* returned with status 200.
\* A handler in which a non-OK backend status also ends in the outer catch.
AlwaysInternalError(outcome) == 500

\* The status of the plain Response that answers a failed dispatch: the outer
\* catch's 500 when fetch rejects, 503 when the backend answers non-OK.
FailureStatus(outcome) == IF outcome = "throws" THEN 500 ELSE 503

DispatchFrom(responses) ==
  /\ pc = "fetch"
  /\ ollamaRequest' = MessagesForOllama(handler, messages, searchContext)
  /\ messages' = MessagesAfterInjection(messages, searchContext)
  /\ \E outcome \in {"throws", "notOk", "ok"} :
       /\ fetchOutcome' = outcome
       /\ IF outcome = "ok"
          THEN /\ \E body \in BOOLEAN, resp \in responses :
                    /\ hasBody' = body
                    /\ response' = IF body THEN resp ELSE <<>>
               /\ httpStatus' = 200
               /\ pc' = "stream"
          ELSE /\ Return(FailureStatus(outcome))
               /\ UNCHANGED << hasBody, response >>
  /\ UNCHANGED << handler, storeVars, clientVars, classifierVars, libVars, request,
                  currentConversationId, dbVars, searchVars, pos, buffer,
                  assistantContent, frames, closed, doneSeen, readerDone,
                  readThrew, dbFailed >>

\* The backend ends every line of its JSONL stream with a newline.
Dispatch == DispatchFrom(Responses)

\* --------------------------------------------------------------- stream
\* The metadata frames enqueued before the read loop.
MetadataFrames(h, isNew, conv, cites, searching) ==
  IF h = "route"
  THEN (IF isNew
        THEN << Frame("metadata", conv, FALSE, <<>>, "absent", FALSE, <<>>, "absent") >>
        ELSE <<>>)
       \o (IF Len(cites) > 0
           THEN << Frame("metadata", "", TRUE, cites, "absent", FALSE, <<>>, "absent") >>
           ELSE <<>>)
  ELSE (IF isNew
        THEN << Frame("metadata", conv, TRUE, cites, "false", FALSE, <<>>, "absent") >>
        ELSE IF Len(cites) > 0
             THEN << Frame("metadata", "", TRUE, cites, "false", FALSE, <<>>, "absent") >>
             ELSE <<>>)
       \o (IF searching
           THEN << Frame("metadata", "", FALSE, <<>>, "true", FALSE, <<>>, "absent") >>
           ELSE <<>>)

\* What `if (!reader)` enqueues before it closes the stream.
NoReaderFrames(h) ==
  IF h = "route" THEN <<>> ELSE << ErrorChunk(SorryText), DoneFrame >>

\* start(controller) up to its first await: the reader check and the
\* metadata frames.
StreamStart ==
  /\ pc = "stream"
  /\ IF hasBody
     THEN /\ frames' = frames \o MetadataFrames(handler,
                          request.conversationId = "" /\ currentConversationId # "",
                          currentConversationId, searchResults, isSearching)
          /\ pc' = "read"
          /\ UNCHANGED closed
     ELSE /\ frames' = frames \o NoReaderFrames(handler)
          /\ closed' = TRUE
          /\ pc' = "end"
  /\ UNCHANGED << handler, storeVars, clientVars, classifierVars, promptVars, libVars,
                  request, httpStatus, currentConversationId, dbVars,
                  searchVars, fetchOutcome, hasBody, response, pos, buffer,
                  assistantContent, doneSeen, readerDone, readThrew,
                  dbFailed >>

\* reader.read() delivers the next n bytes; the buffer is extended, split on
\* newlines, and the complete lines are processed.
ReadChunk ==
  /\ pc = "read"
  /\ pos < Len(response)
  /\ \E n \in 1..(Len(response) - pos) :
       LET text == buffer \o SubSeq(response, pos + 1, pos + n)
           r == IF cancelled
                THEN ProcessLinesAfterCancel(CompleteLines(text), handler)
                ELSE ProcessLines(CompleteLines(text), handler)
       IN /\ pos' = pos + n
          /\ buffer' = Remainder(text)
          /\ assistantContent' = assistantContent \o r.text
          /\ frames' = frames \o r.frames
          /\ doneSeen' = (doneSeen \/ r.done)
  /\ UNCHANGED << handler, storeVars, clientVars, classifierVars, promptVars, libVars,
                  pc, request, httpStatus, currentConversationId, dbVars,
                  searchVars, fetchOutcome, hasBody, response, closed,
                  readerDone, readThrew, dbFailed >>

\* A handler that stores the accumulated text as it is.
UntrimmedContent(text) == text

\* content: assistantContent.trim()
PersistedContent(text) == Trim(text)

\* A row that keeps only the first citation of the turn.
RowWithFirstCitation(conv, text, cites) ==
  [conversationId |-> conv, role |-> "assistant",
   content |-> Trim(text),
   hasCitations |-> Len(cites) > 0,
   citations |-> IF cites = <<>> THEN <<>> ELSE << cites[1] >>]

\* The row of the assistant's message.
AssistantRow(conv, text, cites) ==
  [conversationId |-> conv, role |-> "assistant",
   content |-> PersistedContent(text),
   hasCitations |-> Len(cites) > 0, citations |-> cites]

\* How the two writes of the done branch can end.
WriteOutcomes == {"ok", "createRejects", "updateRejects"}

\* A done branch that closes the stream after the final chunk, without [DONE].
FinalChunkOnly(h, rejected) == << FinalChunk >>

\* What follows the writes of the done branch: part_018 catches a rejected
\* write and goes on to the final chunk; in route the rejection reaches the
\* stream's catch block, which sends the error notice.
TerminalFrames(h, rejected) ==
  IF h = "route" /\ rejected
  THEN << ErrorChunk(ErrorText(h)), DoneFrame >>
  ELSE << FinalChunk, DoneFrame >>

\* What reaches the client stream of the frames a handler enqueues at the end:
\* after the client has disconnected controller.enqueue and controller.close
\* throw, in the catch blocks as well, and start() ends with nothing sent.
Delivered(fs) == IF cancelled THEN <<>> ELSE fs

\* reader.read() reports done: persist the accumulated text if its trim is
\* non-empty, bump the conversation, send the final chunk and [DONE], close.
ReadDone ==
  /\ pc = "read"
  /\ pos = Len(response)
  /\ readerDone' = TRUE
  /\ IF Trim(assistantContent) # <<>>
     THEN \E w \in WriteOutcomes :
            /\ dbMessages' =
                 IF w = "createRejects" THEN dbMessages
                 ELSE Append(dbMessages,
                             AssistantRow(currentConversationId, assistantContent,
                                          searchResults))
            /\ dbUpdated' =
                 IF w = "ok" THEN Append(dbUpdated, currentConversationId)
                 ELSE dbUpdated
            /\ dbFailed' = (w # "ok")
            /\ frames' = frames \o Delivered(TerminalFrames(handler, w # "ok"))
     ELSE /\ frames' = frames \o Delivered(TerminalFrames(handler, FALSE))
          /\ UNCHANGED << dbVars, dbFailed >>
  /\ closed' = ~cancelled
  /\ pc' = "end"
  /\ UNCHANGED << handler, storeVars, clientVars, classifierVars, promptVars, libVars,
                  request, httpStatus, currentConversationId, searchVars,
                  fetchOutcome, hasBody, response, pos, buffer,
                  assistantContent, doneSeen, readThrew >>

\* What the stream's catch block does with the accumulated text: nothing.
\* (Neither revision writes to storage there.)
CatchRows(conv, text, cites) == <<>>

\* reader.read() rejects (the backend connection drops): the catch block
\* sends the error notice and [DONE] and closes the stream.
ReadThrows ==
  /\ pc = "read"
  /\ readThrew' = TRUE
  /\ frames' = frames \o Delivered(<< ErrorChunk(ErrorText(handler)), DoneFrame >>)
  /\ dbMessages' = dbMessages \o CatchRows(currentConversationId, assistantContent,
                                           searchResults)
  /\ closed' = ~cancelled
  /\ pc' = "end"
  /\ UNCHANGED << handler, storeVars, clientVars, classifierVars, promptVars, libVars,
                  request, httpStatus, currentConversationId, dbUpdated,
                  searchVars, fetchOutcome, hasBody, response, pos, buffer,
                  assistantContent, doneSeen, readerDone, dbFailed >>

\* The client disconnects while the response is streaming.  The stream has
\* no cancel handler: it is closed for the client, and start() goes on reading
\* the backend.
ClientCancel ==
  /\ pc = "read"
  /\ ~cancelled
  /\ cancelled' = TRUE
  /\ contentAtCancel' = assistantContent
  /\ UNCHANGED << handler, storeVars, classifierVars, promptVars, libVars, pc, request,
                  httpStatus, currentConversationId, dbVars, searchVars,
                  fetchOutcome, streamVars >>

\* ------------------------------------------------------------------ Next
Next ==
  \/ Unauthorized
  \/ MessagesRequired
  \/ ResolveConversation
  \/ SaveUserMessage
  \/ DetectIntent
  \/ CallProvider
  \/ Dispatch
  \/ StreamStart
  \/ ReadChunk
  \/ ReadDone
  \/ ReadThrows

Spec == Init /\ [][Next]_vars

\* No handler has done anything yet.
NothingDone ==
  /\ pc = "start"
  /\ ollamaRequest = <<>>
  /\ httpStatus = 0
  /\ currentConversationId = ""
  /\ dbMessages = <<>>
  /\ dbUpdated = <<>>
  /\ searchIdx = 1
  /\ called = <<>>
  /\ outcomes = <<>>
  /\ searchReturned = FALSE
  /\ webResults = <<>>
  /\ searchResults = <<>>
  /\ searchContext = <<>>
  /\ isSearching = FALSE
  /\ limit = 0
  /\ searchThrew = FALSE
  /\ fetchOutcome = "none"
  /\ hasBody = FALSE
  /\ response = <<>>
  /\ pos = 0
  /\ buffer = <<>>
  /\ assistantContent = <<>>
  /\ frames = <<>>
  /\ closed = FALSE
  /\ doneSeen = FALSE
  /\ readerDone = FALSE
  /\ readThrew = FALSE
  /\ dbFailed = FALSE
  /\ cancelled = FALSE
  /\ contentAtCancel = <<>>
  /\ UnreadStoreInit

\* ------------------------------------------------- the search library alone
\* searchWeb under any limit a caller can pass: the search route has been
\* entered with a request, in front of either revision of the library.
SearchInit ==
  /\ handler = "part_015"
  /\ request \in SearchRequests
  /\ searchLib \in SearchLibs
  /\ turnMessage = <<>>
  /\ turnHistory = <<>>
  /\ calls = <<>>
  /\ messages = <<>>
  /\ NothingDone

SearchNext ==
  \/ SearchUnauthorized
  \/ QueryRequired
  \/ SearchApiCall
  \/ CallProvider
  \/ CallScraper

SearchSpec == SearchInit /\ [][SearchNext]_vars

\* -------------------------------------------------- the classifier alone
\* Number of phrases in a message, and of classifier calls in a run.
MaxWords == 2
MaxCalls == 3

\* What the messages given to the classifier are made of.
Phrases ==
  { Chars("what is"), Chars("the weather"), Chars("tell me about"),
    Chars("in Paris"), Chars("1999"), Chars("$5"), Chars("today"),
    Chars("explain"), Chars("stock") }
PhraseSeqs == UNION { [1..n -> Phrases] : n \in 1..MaxWords }
Messages == { Join(ps) \o q : ps \in PhraseSeqs, q \in { <<>>, << "?" >> } }
Histories == { <<>>, << [role |-> "user", content |-> Chars("back in 1999")] >> }

\* A message classified between two calls for the turn.
OtherMessage == Chars("tomorrow in Paris")

\* detectSearchIntent is about to be called for a turn.
ClassifierInit ==
  /\ handler = "tool-detection"
  /\ request = [authenticated |-> TRUE]
  /\ searchLib = "web-search"
  /\ turnMessage \in Messages
  /\ turnHistory \in Histories
  /\ calls = <<>>
  /\ messages = <<>>
  /\ NothingDone

\* One call of detectSearchIntent and what it returned.
Call(message, history) ==
  [message |-> message, history |-> history,
   result |-> DetectSearchIntent(message, history)]

\* await detectSearchIntent(message, history) for the turn
ClassifyTurn ==
  /\ handler = "tool-detection"
  /\ Len(calls) < MaxCalls
  /\ calls' = Append(calls, Call(turnMessage, turnHistory))
  /\ UNCHANGED << handler, storeVars, clientVars, pc, request, httpStatus,
                  currentConversationId, dbVars, searchVars, libVars,
                  promptVars, turnMessage, turnHistory, fetchOutcome,
                  streamVars >>

\* await detectSearchIntent(...) for another message, without history
ClassifyOther ==
  /\ handler = "tool-detection"
  /\ Len(calls) < MaxCalls
  /\ calls' = Append(calls, Call(OtherMessage, <<>>))
  /\ UNCHANGED << handler, storeVars, clientVars, pc, request, httpStatus,
                  currentConversationId, dbVars, searchVars, libVars,
                  promptVars, turnMessage, turnHistory, fetchOutcome,
                  streamVars >>

ClassifierNext ==
  \/ ClassifyTurn
  \/ ClassifyOther

ClassifierSpec == ClassifierInit /\ [][ClassifierNext]_vars

\* -------------------------------------------- lib/stream.ts: the transform
\* delta: isFirstChunk ? { role: 'assistant', content } : { content }
TransformChunk(content, done, isFirstChunk) ==
  [ContentChunk(content, done) EXCEPT !.hasRole = isFirstChunk]

\* isFirstChunk is true until the transform has enqueued a chunk.
IsFirstChunk(fs) == \A i \in 1..Len(fs) : fs[i].kind # "chunk"

\* The `for (const line of lines)` loop of one read of the transform.  The
\* text of a line is its `response`; every line that parses gives a chunk,
\* whatever its text, and a done line is followed by [DONE] and `return`.
RECURSIVE TransformLines(_, _)
TransformLines(lines, isFirstChunk) ==
  IF lines = <<>> THEN [frames |-> <<>>, done |-> FALSE]
  ELSE LET line == Head(lines)
           d == JSONParse(line)
           parsed == Trim(line) # <<>> /\ d.ok
           rest == IF parsed /\ d.done
                   THEN [frames |-> << DoneFrame >>, done |-> TRUE]
                   ELSE TransformLines(Tail(lines), isFirstChunk /\ ~parsed)
       IN [frames |-> (IF parsed
                       THEN << TransformChunk(d.content, d.done, isFirstChunk) >>
                       ELSE <<>>) \o rest.frames,
           done |-> rest.done]

\* Backend byte streams whose last line may lack its newline.
Unterminated(ls) == SubSeq(Wire(ls), 1, Len(Wire(ls)) - 1)
AnyResponses == Responses \cup { Unterminated(ls) : ls \in LineSeqs \ { <<>> } }

\* transform(ollamaStream): start(controller) takes the reader.
Transform ==
  /\ handler = "stream.ts"
  /\ pc = "transform"
  /\ \E resp \in AnyResponses : response' = resp
  /\ hasBody' = TRUE
  /\ pc' = "transformRead"
  /\ UNCHANGED << handler, storeVars, clientVars, classifierVars, promptVars, libVars,
                  request, httpStatus, currentConversationId, dbVars,
                  searchVars, fetchOutcome, pos, buffer, assistantContent,
                  frames, closed, doneSeen, readerDone, readThrew, dbFailed >>

\* reader.read() delivers the next n bytes to the transform.  After a done
\* line start() returns; controller.close() is not called on that path.
TransformRead ==
  /\ pc = "transformRead"
  /\ pos < Len(response)
  /\ \E n \in 1..(Len(response) - pos) :
       LET text == buffer \o SubSeq(response, pos + 1, pos + n)
           r == TransformLines(CompleteLines(text), IsFirstChunk(frames))
       IN /\ pos' = pos + n
          /\ buffer' = Remainder(text)
          /\ frames' = frames \o r.frames
          /\ doneSeen' = r.done
          /\ pc' = IF r.done THEN "end" ELSE pc
  /\ UNCHANGED << handler, storeVars, clientVars, classifierVars, promptVars, libVars,
                  request, httpStatus, currentConversationId, dbVars,
                  searchVars, fetchOutcome, hasBody, response,
                  assistantContent, closed, readerDone, readThrew, dbFailed >>

\* reader.read() reports done: the final chunk and [DONE] are enqueued, then
\* `break` leaves the loop and start() ends; controller.close() is not called.
TransformDone ==
  /\ pc = "transformRead"
  /\ pos = Len(response)
  /\ readerDone' = TRUE
  /\ frames' = frames \o << FinalChunk, DoneFrame >>
  /\ pc' = "end"
  /\ UNCHANGED << handler, storeVars, clientVars, classifierVars, promptVars, libVars,
                  request, httpStatus, currentConversationId, dbVars,
                  searchVars, fetchOutcome, hasBody, response, pos, buffer,
                  assistantContent, closed, doneSeen, readThrew, dbFailed >>

\* reader.read() rejects: controller.error(error) puts the output stream in
\* the errored state.
TransformThrows ==
  /\ pc = "transformRead"
  /\ readThrew' = TRUE
  /\ pc' = "end"
  /\ UNCHANGED << handler, storeVars, clientVars, classifierVars, promptVars, libVars,
                  request, httpStatus, currentConversationId, dbVars,
                  searchVars, fetchOutcome, hasBody, response, pos, buffer,
                  assistantContent, frames, closed, doneSeen, readerDone,
                  dbFailed >>

\* ------------------------------- the transcoders, any client, any backend
\* The three transcoders from the call of the backend on: a completions
\* handler that has stored the user's message of a turn that needed no
\* search, or the transform about to be given a stream.  The client may
\* disconnect, and the backend's last line may lack its newline.
Transcoders == Handlers \cup { "stream.ts" }

DispatchAny == DispatchFrom(AnyResponses)

StreamInit ==
  /\ handler \in Transcoders
  /\ IF handler = "stream.ts"
     THEN /\ request = [authenticated |-> TRUE]
          /\ pc = "transform"
          /\ currentConversationId = ""
          /\ dbMessages = <<>>
          /\ messages = <<>>
     ELSE /\ request \in { r \in Requests :
                             /\ r.authenticated /\ r.hasMessages
                             /\ r.lastRole = "user"
                             /\ handler = "route" => r.enableWebSearch }
          /\ pc = "fetch"
          /\ currentConversationId =
               (IF request.conversationId = "" THEN "conv-new"
                ELSE request.conversationId)
          /\ dbMessages = << UserMessageRow(currentConversationId) >>
          /\ messages = InboundMessages(request)
  /\ ollamaRequest = <<>>
  /\ httpStatus = 0
  /\ dbUpdated = <<>>
  /\ searchIdx = 1
  /\ called = <<>>
  /\ outcomes = <<>>
  /\ searchReturned = FALSE
  /\ webResults = <<>>
  /\ searchResults = <<>>
  /\ searchContext = <<>>
  /\ isSearching = FALSE
  /\ limit = 0
  /\ searchLib = "web-search"
  /\ searchThrew = FALSE
  /\ turnMessage = <<>>
  /\ turnHistory = <<>>
  /\ calls = <<>>
  /\ fetchOutcome = "none"
  /\ hasBody = FALSE
  /\ response = <<>>
  /\ pos = 0
  /\ buffer = <<>>
  /\ assistantContent = <<>>
  /\ frames = <<>>
  /\ closed = FALSE
  /\ doneSeen = FALSE
  /\ readerDone = FALSE
  /\ readThrew = FALSE
  /\ dbFailed = FALSE
  /\ cancelled = FALSE
  /\ contentAtCancel = <<>>
  /\ UnreadStoreInit

StreamNext ==
  \/ DispatchAny
  \/ StreamStart
  \/ ReadChunk
  \/ ReadDone
  \/ ReadThrows
  \/ ClientCancel
  \/ Transform
  \/ TransformRead
  \/ TransformDone
  \/ TransformThrows

StreamSpec == StreamInit /\ [][StreamNext]_vars

\* ------------------------------------------- someone else's conversation
\* The user of the session, and the owner of a conversation row: "conv-other"
\* exists and belongs to another user.
SessionUser == "user-1"
ConversationOwner(conv) == IF conv = "conv-other" THEN "user-2" ELSE SessionUser

\* Requests of the signed-in user that name the other user's conversation.
ForeignRequests ==
  [authenticated : {TRUE}, hasMessages : {TRUE},
   conversationId : {"conv-other"}, lastRole : {"user", "assistant"},
   enableWebSearch : BOOLEAN]

OwnershipInit ==
  /\ handler \in Handlers
  /\ request \in { r \in ForeignRequests : handler = "route" => r.enableWebSearch }
  /\ searchLib = "web-search"
  /\ turnMessage = <<>>
  /\ turnHistory = <<>>
  /\ calls = <<>>
  /\ messages = InboundMessages(request)
  /\ NothingDone

OwnershipNext ==
  \/ ResolveConversation
  \/ SaveUserMessage
  \/ DetectIntent
  \/ CallProvider
  \/ Dispatch
  \/ StreamStart
  \/ ReadChunk
  \/ ReadDone
  \/ ReadThrows

OwnershipSpec == OwnershipInit /\ [][OwnershipNext]_vars

\* ------------------------------------ the classifier as part_018 calls it
\* messages.slice(-5).map(m => ({ role: m.role, content: m.content }))
LastFive(msgs) ==
  LET from == IF Len(msgs) > 5 THEN Len(msgs) - 4 ELSE 1
  IN [i \in 1..(Len(msgs) - from + 1) |->
        [role |-> msgs[from + i - 1].role, content |-> msgs[from + i - 1].content]]

\* The turns of a conversation before the message being classified: none, a
\* question that mentions a year and its answer, or five turns of which only
\* the oldest mentions the year.
EarlierConversations ==
  LET user(text) == [role |-> "user", content |-> Chars(text)]
      assistant(text) == [role |-> "assistant", content |-> Chars(text)]
  IN { <<>>,
       << user("back in 1999"), assistant("ok") >>,
       << user("back in 1999"), assistant("ok"), user("and then"),
          assistant("ok"), user("go on") >> }

\* part_018 has stored the user's message of a request that allows web
\* search and is about to classify it.
OrchestratorInit ==
  /\ handler = "part_018"
  /\ request = [authenticated |-> TRUE, hasMessages |-> TRUE,
                conversationId |-> "conv-req", lastRole |-> "user",
                enableWebSearch |-> TRUE]
  /\ pc = "intent"
  /\ \E earlier \in EarlierConversations, m \in Messages :
       messages = earlier \o << [role |-> "user", content |-> m] >>
  /\ currentConversationId = "conv-req"
  /\ dbMessages = << [UserMessageRow("conv-req") EXCEPT
                        !.content = messages[Len(messages)].content] >>
  /\ ollamaRequest = <<>>
  /\ httpStatus = 0
  /\ dbUpdated = <<>>
  /\ searchIdx = 1
  /\ called = <<>>
  /\ outcomes = <<>>
  /\ searchReturned = FALSE
  /\ webResults = <<>>
  /\ searchResults = <<>>
  /\ searchContext = <<>>
  /\ isSearching = FALSE
  /\ limit = 0
  /\ searchLib = "web-search"
  /\ searchThrew = FALSE
  /\ turnMessage = <<>>
  /\ turnHistory = <<>>
  /\ calls = <<>>
  /\ fetchOutcome = "none"
  /\ hasBody = FALSE
  /\ response = <<>>
  /\ pos = 0
  /\ buffer = <<>>
  /\ assistantContent = <<>>
  /\ frames = <<>>
  /\ closed = FALSE
  /\ doneSeen = FALSE
  /\ readerDone = FALSE
  /\ readThrew = FALSE
  /\ dbFailed = FALSE
  /\ cancelled = FALSE
  /\ contentAtCancel = <<>>
  /\ UnreadStoreInit

\* const searchIntent = await detectSearchIntent(lastUserMessage.content,
\*                                               messages.slice(-5).map(...))
OrchestratorClassify ==
  /\ handler = "part_018"
  /\ pc = "intent"
  /\ calls = <<>>
  /\ request.enableWebSearch
  /\ messages[Len(messages)].role = "user"
  /\ turnMessage' = messages[Len(messages)].content
  /\ turnHistory' = LastFive(messages)
  /\ calls' = << Call(messages[Len(messages)].content, LastFive(messages)) >>
  /\ pc' = "classified"
  /\ UNCHANGED << handler, storeVars, clientVars, promptVars, libVars, request,
                  httpStatus, currentConversationId, dbVars, searchVars,
                  fetchOutcome, streamVars >>

OrchestratorNext == OrchestratorClassify

OrchestratorSpec == OrchestratorInit /\ [][OrchestratorNext]_vars

\* ----------------------------------------- hooks/useChat.ts: the SSE reader
\* The bytes of one event as the handlers encode it: `data: <payload>\n\n`.
\* The payload of a chunk is written in the alphabet of the backend lines
\* ("." for finish_reason null, "!" for "stop"), that of the sentinel is
\* [DONE].
DataPrefix == Chars("data: ")
Sentinel == Chars("[DONE]")
Encode(f) ==
  DataPrefix
  \o (IF f.kind = "sentinel" THEN Sentinel
      ELSE << "{" >> \o f.content
           \o << IF f.finish_reason = "stop" THEN "!" ELSE "." >>)
  \o << NL, NL >>

\* The frames of the streams a handler sends for an existing conversation
\* without search when the backend stream ends normally.
ServerStreams ==
  { ProcessLines(ls, h).frames \o << FinalChunk, DoneFrame >> :
      ls \in LineSeqs, h \in Handlers }

\* line.startsWith(prefix)
StartsWith(line, prefix) ==
  Len(line) >= Len(prefix) /\ SubSeq(line, 1, Len(prefix)) = prefix

\* The `for (const line of lines)` loop of the hook over the lines of one
\* chunk: the text it adds to assistantContent.  [DONE] and a chunk with
\* finish_reason "stop" leave the loop; a payload JSON.parse rejects is
\* logged and skipped.
RECURSIVE ClientLines(_)
ClientLines(lines) ==
  IF lines = <<>> THEN <<>>
  ELSE LET line == Head(lines)
           data == SubSeq(line, Len(DataPrefix) + 1, Len(line))
           parsed == JSONParse(data)
       IN IF Trim(line) = <<>> \/ ~StartsWith(line, DataPrefix)
          THEN ClientLines(Tail(lines))
          ELSE IF data = Sentinel THEN <<>>
          ELSE IF ~parsed.ok THEN ClientLines(Tail(lines))
          ELSE parsed.content
               \o (IF parsed.done THEN <<>> ELSE ClientLines(Tail(lines)))

\* content: 'Sorry, I encountered an error. Please try again.'
ClientErrorText == << "Sorry, I encountered an error. Please try again." >>

\* sendMessage has appended the user's message to the thread, the response
\* has arrived with status 200, and the hook is about to read its body: the
\* frames the server emits and their bytes.
ClientInit ==
  /\ handler = "useChat"
  /\ request = [authenticated |-> TRUE]
  /\ pc = "clientRead"
  /\ frames \in ServerStreams
  /\ response = Concat([i \in 1..Len(frames) |-> Encode(frames[i])])
  /\ messages = << [role |-> "user", content |-> UserContent] >>
  /\ hasBody = TRUE
  /\ httpStatus = 200
  /\ currentConversationId = "conv-req"
  /\ dbMessages = <<>>
  /\ ollamaRequest = <<>>
  /\ dbUpdated = <<>>
  /\ searchIdx = 1
  /\ called = <<>>
  /\ outcomes = <<>>
  /\ searchReturned = FALSE
  /\ webResults = <<>>
  /\ searchResults = <<>>
  /\ searchContext = <<>>
  /\ isSearching = FALSE
  /\ limit = 0
  /\ searchLib = "web-search"
  /\ searchThrew = FALSE
  /\ turnMessage = <<>>
  /\ turnHistory = <<>>
  /\ calls = <<>>
  /\ fetchOutcome = "ok"
  /\ pos = 0
  /\ buffer = <<>>
  /\ assistantContent = <<>>
  /\ closed = TRUE
  /\ doneSeen = FALSE
  /\ readerDone = FALSE
  /\ readThrew = FALSE
  /\ dbFailed = FALSE
  /\ cancelled = FALSE
  /\ contentAtCancel = <<>>
  /\ UnreadStoreInit

\* reader.read() delivers the next n bytes: the chunk is decoded, split on
\* newlines, and its non-blank lines are processed.  Nothing is kept from one
\* chunk to the next.
ClientRead ==
  /\ handler = "useChat"
  /\ pc = "clientRead"
  /\ pos < Len(response)
  /\ \E n \in 1..(Len(response) - pos) :
       LET chunk == SubSeq(response, pos + 1, pos + n)
       IN /\ pos' = pos + n
          /\ assistantContent' = assistantContent \o ClientLines(Split(chunk))
  /\ UNCHANGED << handler, storeVars, clientVars, classifierVars, promptVars, libVars,
                  pc, request, httpStatus, currentConversationId, dbVars,
                  searchVars, fetchOutcome, hasBody, response, buffer,
                  frames, closed, doneSeen, readerDone, readThrew, dbFailed >>

\* reader.read() reports done: a non-empty assistantContent is appended to
\* the thread as the assistant's message.
ClientDone ==
  /\ handler = "useChat"
  /\ pc = "clientRead"
  /\ pos = Len(response)
  /\ readerDone' = TRUE
  /\ messages' = IF assistantContent # <<>>
                 THEN Append(messages, [role |-> "assistant",
                                        content |-> assistantContent])
                 ELSE messages
  /\ pc' = "end"
  /\ UNCHANGED << handler, storeVars, clientVars, classifierVars, libVars, request,
                  httpStatus, currentConversationId, dbVars, searchVars,
                  ollamaRequest, fetchOutcome, hasBody, response, pos,
                  buffer, assistantContent, frames, closed, doneSeen,
                  readThrew, dbFailed >>

\* reader.read() rejects: the catch block appends the error message instead.
ClientReadThrows ==
  /\ handler = "useChat"
  /\ pc = "clientRead"
  /\ readThrew' = TRUE
  /\ messages' = Append(messages, [role |-> "assistant",
                                   content |-> ClientErrorText])
  /\ pc' = "end"
  /\ UNCHANGED << handler, storeVars, clientVars, classifierVars, libVars, request,
                  httpStatus, currentConversationId, dbVars, searchVars,
                  ollamaRequest, fetchOutcome, hasBody, response, pos,
                  buffer, assistantContent, frames, closed, doneSeen,
                  readerDone, dbFailed >>

ClientNext ==
  \/ ClientRead
  \/ ClientDone
  \/ ClientReadThrows

ClientSpec == ClientInit /\ [][ClientNext]_vars

\* ------------------------------------------------- lib/unread-store.ts
\* Set.prototype.delete that removes nothing.
DeleteNothing(set, id) == set

\* Set.prototype.add and Set.prototype.delete
Add(set, id) == set \cup {id}
Delete(set, id) == set \ {id}

\* hasUnread(conversationId)
HasUnread(conversationId) == conversationId \in unreadConversations

\* getUnread(): a copy of the set
GetUnread(unread) == unread

\* notifyListeners(): every listener of the set is called with a copy of the
\* unread set; the others keep what they were last called with.
NotifyListeners(ls, unread, snapshots) ==
  [l \in DOMAIN snapshots |->
     IF l \in ls THEN << GetUnread(unread) >> ELSE snapshots[l]]

StoreFrame ==
  UNCHANGED << handler, clientVars, classifierVars, promptVars, libVars, pc,
               request, httpStatus, currentConversationId, dbVars, searchVars,
               fetchOutcome, streamVars >>

MarkUnread ==
  /\ handler = "unread-store"
  /\ \E id \in ConversationIds :
       /\ unreadConversations' = Add(unreadConversations, id)
       /\ lastMark' = [lastMark EXCEPT ![id] = "markUnread"]
  /\ lastSnapshot' = NotifyListeners(listeners, unreadConversations',
                                     lastSnapshot)
  /\ notified' = listeners
  /\ UNCHANGED << listeners, unsubscribed >>
  /\ StoreFrame

MarkRead ==
  /\ handler = "unread-store"
  /\ \E id \in ConversationIds :
       /\ unreadConversations' = Delete(unreadConversations, id)
       /\ lastMark' = [lastMark EXCEPT ![id] = "markRead"]
  /\ lastSnapshot' = NotifyListeners(listeners, unreadConversations',
                                     lastSnapshot)
  /\ notified' = listeners
  /\ UNCHANGED << listeners, unsubscribed >>
  /\ StoreFrame

\* subscribe(listener): the listener joins the set and is called at once with
\* the current state.
Subscribe ==
  /\ handler = "unread-store"
  /\ \E l \in UnreadListeners :
       /\ listeners' = Add(listeners, l)
       /\ lastSnapshot' = NotifyListeners({l}, unreadConversations,
                                          lastSnapshot)
       /\ notified' = {l}
       /\ unsubscribed' = unsubscribed \ {l}
  /\ UNCHANGED << unreadConversations, lastMark >>
  /\ StoreFrame

\* The function subscribe returned is called (it exists once the listener
\* has subscribed; calling it again is allowed).
Unsubscribe ==
  /\ handler = "unread-store"
  /\ \E l \in UnreadListeners :
       /\ lastSnapshot[l] # <<>>
       /\ listeners' = Delete(listeners, l)
       /\ unsubscribed' = unsubscribed \cup {l}
  /\ notified' = {}
  /\ UNCHANGED << unreadConversations, lastMark, lastSnapshot >>
  /\ StoreFrame

StoreInit ==
  /\ handler = "unread-store"
  /\ request = [authenticated |-> TRUE]
  /\ searchLib = "web-search"
  /\ turnMessage = <<>>
  /\ turnHistory = <<>>
  /\ calls = <<>>
  /\ messages = <<>>
  /\ NothingDone

StoreNext ==
  \/ MarkUnread
  \/ MarkRead
  \/ Subscribe
  \/ Unsubscribe

StoreSpec == StoreInit /\ [][StoreNext]_vars

\* =================================================================== claims
Last(fs) == fs[Len(fs)]
AssistantRows == { i \in 1..Len(dbMessages) : dbMessages[i].role = "assistant" }
UserStored ==
  \E i \in 1..Len(dbMessages) :
    /\ dbMessages[i].role = "user"
    /\ dbMessages[i].conversationId = currentConversationId
    /\ dbMessages[i].content = UserContent
IsNotice(f) == IsDelta(f) /\ f.content \in {SorryText, FailedText}
\* The payloads of the content deltas translated from backend lines.
RECURSIVE BackendDeltas(_)
BackendDeltas(fs) ==
  IF fs = <<>> THEN <<>>
  ELSE (IF IsDelta(Head(fs)) /\ ~IsNotice(Head(fs)) THEN << Head(fs).content >>
        ELSE <<>>) \o BackendDeltas(Tail(fs))

\* C1 (as claimed): every response stream carries exactly one [DONE] frame and
\* nothing after it: no frame follows a [DONE], and a closed stream ends with
\* one.
C1_ExactlyOneSentinel ==
  /\ \A i \in 1..(Len(frames) - 1) : frames[i].kind # "sentinel"
  /\ closed => (frames # <<>> /\ Last(frames).kind = "sentinel")

C3_PartialContentPersisted ==
  (readThrew /\ closed /\ Trim(assistantContent) # <<>>) =>
    \E i \in AssistantRows :
      /\ dbMessages[i].conversationId = currentConversationId
      /\ dbMessages[i].content \in {assistantContent, Trim(assistantContent)}

C5_WriteFailureInvisible ==
  (readerDone /\ dbFailed) =>
    /\ Len(frames) >= 2
    /\ Last(frames) = DoneFrame
    /\ frames[Len(frames) - 1] = FinalChunk
    /\ Concat(Deltas(frames)) = assistantContent

\* C6 (as claimed): however the bytes of a newline-terminated response are
\* split into reads, the content deltas are those of the response delivered
\* as a single chunk.
C6_ChunkingInvariant ==
  (readerDone /\ ~dbFailed) =>
    Deltas(frames) = Deltas(ProcessLines(CompleteLines(response), handler).frames)

\* C7 (as claimed): once a parsed line carried done=true, no further backend
\* data is read.
C7_StopsReadingOnDone == [][doneSeen => pos' = pos]_vars

\* C8: when the backend byte stream ends and no line carried done=true, the
\* handler has left the read loop, the stream is closed, and its last two
\* frames are a chunk with finish_reason "stop" and [DONE].
C8_TerminalSequenceAtEndOfStream ==
  (readerDone /\ ~doneSeen) =>
    /\ pc = "end"
    /\ closed
    /\ Len(frames) >= 2
    /\ Last(frames) = DoneFrame
    /\ frames[Len(frames) - 1].kind = "chunk"
    /\ frames[Len(frames) - 1].finish_reason = "stop"
    /\ \A i \in 1..(Len(frames) - 1) : frames[i].kind # "sentinel"

\* C8 witness: a response with content and no done line was read to its end.
C8_Witness == readerDone /\ ~doneSeen /\ assistantContent # <<>>

\* C9: when the last inbound message has role user, its row is in storage
\* once fetch has been called, and a stored row stays stored in every later
\* step.
C9_UserMessageStoredBeforeDispatch ==
  /\ []((fetchOutcome # "none" /\ request.lastRole = "user") => UserStored)
  /\ [][UserStored => UserStored']_vars

\* C9 witness: the user's row is still stored after the backend read rejected.
C9_Witness == readThrew /\ UserStored /\ request.lastRole = "user"

\* C10: the providers are called in the order of SearchMethods; a provider is
\* called only after every earlier one threw or returned nothing; searchWeb
\* returns the results of the first provider that returned any, right after
\* that call, and returns [] only after all three failed.
C10_ProviderOrder ==
  LET failed(o) == o.threw \/ Len(o.results) = 0 IN
  /\ Len(called) = Len(outcomes)
  /\ called = SubSeq(<< "DuckDuckGo", "Brave", "SearX" >>, 1, Len(called))
  /\ \A i \in 1..(Len(called) - 1) : failed(outcomes[i])
  /\ ~searchReturned => \A i \in 1..Len(called) : failed(outcomes[i])
  /\ searchReturned =>
       IF failed(Last(outcomes))
       THEN Len(called) = 3 /\ webResults = <<>>
       ELSE webResults = Last(outcomes).results

\* C10 witness: the first provider returned nothing, the second two results,
\* which were returned without calling the third.
C10_Witness ==
  /\ searchReturned
  /\ Len(called) = 2
  /\ ~outcomes[1].threw
  /\ Len(webResults) = 2
  /\ webResults[1].provider = "Brave"
\* C11: when every provider called threw or returned nothing, searchWeb has
\* returned the empty list once the chain is over; and no exception of a
\* provider ever reaches the caller of searchWeb, in either revision.
C11_EmptyListNeverThrows ==
  /\ ~searchThrew
  /\ (pc # "search" /\ called # <<>>
        /\ \A i \in 1..Len(outcomes) :
             outcomes[i].threw \/ Len(outcomes[i].results) = 0)
       => (searchReturned /\ webResults = <<>> /\ httpStatus = 200)

\* C11 witness: web-search.ts called all three methods, two of which threw,
\* and returned [] to its caller.
C11_Witness ==
  /\ searchLib = "web-search"
  /\ Len(called) = 3
  /\ outcomes[1].threw /\ ~outcomes[2].threw /\ outcomes[3].threw
  /\ searchReturned
  /\ webResults = <<>>
  /\ httpStatus = 200

\* C12: the list searchWeb returns has at most `limit` elements, for every
\* limit from 0 up and whichever provider produced it.
C12_AtMostLimit ==
  searchReturned => Len(webResults) <= limit

\* C12 witness: the third method fetched a page with more entries than the
\* limit of 1, and one result came back.
C12_Witness ==
  /\ searchReturned
  /\ limit = 1
  /\ Len(called) = 3
  /\ Last(outcomes).raw > limit
  /\ Len(webResults) = 1
  /\ webResults[1].provider = "SearX"
\* C13: the answer of detectSearchIntent (of the latest call; every call is
\* the latest one when it returns) follows the tier table: 0.9 when
\* a high-confidence pattern matches, whatever else holds; otherwise 0.7 when
\* two or more medium indicators hold; otherwise 0.5 when a low indicator
\* holds, the message has more than 20 characters and names a dynamic topic;
\* otherwise 0; and shouldSearch is true exactly when the confidence is not 0.
C13_TierTable ==
  \A n \in { Len(calls) } \ { 0 } :
    LET m == calls[n].message
        h == calls[n].history
        high == \E pattern \in HighConfidencePatterns : Test(pattern, TRUE, m)
        medium == MediumConfidenceIndicators(m, h)
        low == LowConfidenceIndicators(m)
        mediumCount == Cardinality({ i \in 1..Len(medium) : medium[i] })
        tier == IF high THEN 9
                ELSE IF mediumCount >= 2 THEN 7
                ELSE IF /\ \E i \in 1..Len(low) : low[i]
                        /\ Len(m) > 20
                        /\ CheckIfNeedsCurrent(m, h)
                THEN 5
                ELSE 0
    IN /\ calls[n].result.confidence = tier
       /\ calls[n].result.shouldSearch = (tier > 0)

\* C13 witness: the turn's message was put in the low tier (0.5), another
\* message in the high tier (0.9).
C13_Witness ==
  /\ \E n \in 1..Len(calls) : calls[n].result.confidence = 5
  /\ \E n \in 1..Len(calls) : calls[n].result.confidence = 9

C15_NoCitationsNoAugmentation ==
  /\ (fetchOutcome # "none" /\ searchResults = <<>>)
       => /\ ollamaRequest[1] = [role |-> "system", content |-> BasePrompt(handler)]
          /\ Tail(ollamaRequest) = InboundMessages(request)
  /\ (called # <<>> /\ pc # "search" /\ searchResults = <<>>)
       => (pc = "fetch" \/ fetchOutcome # "none")

\* C15 witness: every provider failed, one of them by throwing, and the turn
\* was dispatched to the backend.
C15_Witness ==
  /\ Len(called) = 3
  /\ \E i \in 1..3 : outcomes[i].threw
  /\ searchResults = <<>>
  /\ fetchOutcome = "ok"
  /\ Len(ollamaRequest) = 4

\* C16: when the turn has citations, the messages sent are the system prompt,
\* the earlier inbound turns unchanged, and the last inbound message with a
\* block appended to its content; the inbound array still holds what the
\* request carried.
C16_OnlyLastTurnAugmented ==
  LET inbound == InboundMessages(request)
      n == Len(inbound)
  IN /\ messages = inbound
     /\ (fetchOutcome # "none" /\ searchResults # <<>>)
          => /\ Len(ollamaRequest) = n + 1
             /\ ollamaRequest[1].role = "system"
             /\ ollamaRequest[1].content # BasePrompt(handler)
             /\ \A i \in 1..(n - 1) : ollamaRequest[i + 1] = inbound[i]
             /\ ollamaRequest[n + 1].role = inbound[n].role
             /\ Len(ollamaRequest[n + 1].content) > Len(inbound[n].content)
             /\ SubSeq(ollamaRequest[n + 1].content, 1, Len(inbound[n].content))
                  = inbound[n].content

\* C16 witness: a request with two earlier turns was dispatched with
\* citations.
C16_Witness ==
  /\ fetchOutcome = "ok"
  /\ Len(searchResults) = 2
  /\ Len(ollamaRequest) = 4
  /\ Len(ollamaRequest[4].content) > 1

\* C17: the citations of a turn are one per result of the list searchWeb
\* returned, in its order, with ids cite-1 .. cite-N; the markers of the
\* search-result block are [1] .. [N], each in front of its result; and
\* building the citations again from the list gives the same citations.
C17_CitationNumbering ==
  LET N == Len(webResults)
      marker(k) == "[" \o ToString(k) \o "]"
      IsMarker(piece) == \E k \in 0..Len(searchContext) : piece = marker(k)
  IN searchReturned =>
       /\ Len(searchResults) = N
       /\ \A k \in 1..N :
            /\ searchResults[k].id = "cite-" \o ToString(k)
            /\ searchResults[k].result = webResults[k]
       /\ Citations(webResults) = searchResults
       /\ SelectSeq(searchContext, IsMarker) = [k \in 1..N |-> marker(k)]
       /\ \A k \in 1..N :
            \E j \in 1..(Len(searchContext) - 1) :
              /\ searchContext[j] = marker(k)
              /\ searchContext[j + 1] = ResultText(webResults[k])

\* C17 witness: two results came back and were numbered.
C17_Witness ==
  /\ searchReturned
  /\ Len(webResults) = 2
  /\ searchResults[2].id = "cite-2"
  /\ searchResults[2].result.rank = 2
\* C18: on every response stream no metadata frame comes after a content
\* delta, and no chat.completion.chunk frame carries a conversationId, a
\* citations list or an isSearching field.
C18_MetadataBeforeContent ==
  /\ \A i, j \in 1..Len(frames) :
       (i < j /\ IsDelta(frames[i])) => frames[j].kind # "metadata"
  /\ \A i \in 1..Len(frames) :
       frames[i].kind = "chunk"
         => /\ frames[i].conversationId = ""
            /\ ~frames[i].hasCitations
            /\ frames[i].isSearching = "absent"

\* C18 witness: a new conversation with citations: metadata frames, then a
\* content delta of the backend.
C18_Witness ==
  /\ Len(frames) >= 2
  /\ frames[1].kind = "metadata"
  /\ frames[1].conversationId # ""
  /\ \E i \in 1..Len(frames) : frames[i].kind = "metadata" /\ frames[i].hasCitations
  /\ IsDelta(Last(frames))
  /\ ~IsNotice(Last(frames))

\* C19 (as claimed): when no search was started for the turn (the classifier
\* abstained, or web search was disabled), no frame of the stream carries an
\* isSearching field, whether the conversation is new or not.
C19_NoSearchStatusWithoutSearch ==
  called = <<>> => \A i \in 1..Len(frames) : frames[i].isSearching = "absent"

\* C20 (as claimed): the first content delta of a turn carries the role, and
\* no later content delta does.
C20_RoleOnFirstDeltaOnly ==
  \A i \in 1..Len(frames) :
    IsDelta(frames[i])
      => (frames[i].hasRole <=> \A j \in 1..(i - 1) : ~IsDelta(frames[j]))

\* C21 (as claimed): when the client disconnected while the response was
\* streaming, the content accumulated up to that point is stored as an
\* assistant message of the conversation once start() has ended: a row of the
\* conversation holds it, alone or as the beginning of the whole answer.
\* (Blank content and a rejected write are left aside.)
C21_ContentAtCancelPersisted ==
  (cancelled /\ pc = "end" /\ Trim(contentAtCancel) # <<>> /\ ~dbFailed) =>
    \E i \in AssistantRows :
      /\ dbMessages[i].conversationId = currentConversationId
      /\ dbMessages[i].content \in
           { contentAtCancel, Trim(contentAtCancel), Trim(assistantContent) }

\* C22 (as claimed): a turn writes at most one assistant message; when the
\* stream has terminated it has written exactly one if the text accumulated
\* from the deltas is non-empty (whitespace-only text included) and storage
\* accepted the write, and none if the text is empty.
C22_OneRowIffTextNonEmpty ==
  /\ Cardinality(AssistantRows) <= 1
  /\ (closed /\ assistantContent # <<>> /\ ~dbFailed) =>
       Cardinality(AssistantRows) = 1
  /\ (closed /\ assistantContent = <<>>) => Cardinality(AssistantRows) = 0

\* C23 (as claimed): the conversation's updatedAt is bumped during a turn if
\* and only if the turn streamed at least one content delta: never without
\* one, and always by the time the stream of a turn that streamed one has
\* terminated.  (The error notices are not counted as content, and a turn
\* with a rejected write is left aside.)
C23_BumpedIffContentStreamed ==
  /\ Len(dbUpdated) > 0 => BackendDeltas(frames) # <<>>
  /\ (closed /\ ~dbFailed /\ BackendDeltas(frames) # <<>>) =>
       \E i \in 1..Len(dbUpdated) : dbUpdated[i] = currentConversationId

\* C24: a stored assistant message carries citation metadata exactly when the
\* search of the turn returned results, and then its citation list is, element
\* by element and in order, the list of the citations frame sent to the
\* client in the same turn.
C24_StoredCitationsAsSent ==
  \A i \in AssistantRows :
    /\ dbMessages[i].hasCitations <=> Len(webResults) > 0
    /\ ~dbMessages[i].hasCitations => dbMessages[i].citations = <<>>
    /\ dbMessages[i].hasCitations =>
         /\ \E k \in 1..Len(frames) :
              frames[k].kind = "metadata" /\ frames[k].hasCitations
         /\ \A k \in 1..Len(frames) :
              frames[k].hasCitations =>
                /\ Len(frames[k].citations) = Len(dbMessages[i].citations)
                /\ \A j \in 1..Len(frames[k].citations) :
                     frames[k].citations[j] = dbMessages[i].citations[j]

\* C24 witness: a turn whose search returned two results has stored its
\* answer with both citations.
C24_Witness ==
  \E i \in AssistantRows :
    /\ dbMessages[i].hasCitations
    /\ Len(dbMessages[i].citations) = 2
    /\ Len(webResults) = 2
    /\ readerDone

\* C25 (as claimed): the completions endpoint writes messages and the recency
\* update only into conversations owned by the user of the session: no stored
\* row and no updatedAt bump belongs to a conversation of another user.
C25_WritesOnlyToOwnConversation ==
  /\ \A i \in 1..Len(dbMessages) :
       ConversationOwner(dbMessages[i].conversationId) = SessionUser
  /\ \A i \in 1..Len(dbUpdated) : ConversationOwner(dbUpdated[i]) = SessionUser

\* The lines of a read that JSON.parse accepts.
ValidLines(lines) == SelectSeq(lines, LAMBDA l : JSONParse(l).ok)

\* C26: a complete line that is not valid JSON produces no frame and does not
\* end the stream.  In every read, the frames enqueued and the text
\* accumulated are those of the same read with its invalid lines left out, and
\* the read loop goes on unless a valid line carried done=true; when the
\* reader reports done, the final chunk and [DONE] follow.
C26_InvalidLineSkipped ==
  /\ [][(pos' > pos /\ ~cancelled) =>
          LET lines == CompleteLines(buffer \o SubSeq(response, pos + 1, pos'))
              valid == ValidLines(lines)
          IN IF handler = "stream.ts"
             THEN LET r == TransformLines(valid, IsFirstChunk(frames))
                  IN /\ frames' = frames \o r.frames
                     /\ pc' = (IF r.done THEN "end" ELSE pc)
             ELSE LET r == ProcessLines(valid, handler)
                  IN /\ frames' = frames \o r.frames
                     /\ assistantContent' = assistantContent \o r.text
                     /\ pc' = pc /\ ~closed']_vars
  /\ []((readerDone /\ ~cancelled /\ (handler = "route" => ~dbFailed)) =>
          /\ Len(frames) >= 2
          /\ frames[Len(frames) - 1] = FinalChunk
          /\ Last(frames) = DoneFrame)

\* C26 witness: an invalid line was followed by a content line; the content
\* was sent as the only delta and accumulated, and the stream ended normally.
C26_Witness ==
  /\ handler \in Handlers
  /\ response = Wire(<< << "x" >>, << "{", "a", "." >> >>)
  /\ readerDone /\ ~cancelled /\ ~dbFailed
  /\ Deltas(frames) = << << "a" >> >>
  /\ assistantContent = << "a" >>
  /\ Last(frames) = DoneFrame

\* The objects JSON.parse returned in the loop over the lines of one read:
\* one for each valid line the loop came to (part_018 leaves the loop after a
\* done=true line).
RECURSIVE ParsedLines(_, _)
ParsedLines(lines, h) ==
  IF lines = <<>> THEN <<>>
  ELSE LET d == JSONParse(Head(lines))
       IN IF ~d.ok THEN ParsedLines(Tail(lines), h)
          ELSE << d >> \o (IF h = "part_018" /\ d.done THEN <<>>
                           ELSE ParsedLines(Tail(lines), h))

\* C27: each parsed backend line with non-empty message.content yields exactly
\* one content delta carrying that content unchanged, enqueued in the read
\* that delivered the line (so before the next chunk is read) and in backend
\* order; a line with empty content yields no delta.  After the reader
\* reported done, one final chunk and [DONE] follow the deltas, the
\* accumulated text is the concatenation of the deltas, and what is stored is
\* that text (trimmed).  (Handlers with the client connected and the writes
\* accepted.)
C27_OneDeltaPerContentLine ==
  /\ [][(pos' > pos /\ handler \in Handlers /\ ~cancelled) =>
          LET lines == CompleteLines(buffer \o SubSeq(response, pos + 1, pos'))
              ds == SelectSeq(ParsedLines(lines, handler),
                              LAMBDA d : d.content # <<>>)
          IN /\ Len(frames') = Len(frames) + Len(ds)
             /\ SubSeq(frames', 1, Len(frames)) = frames
             /\ \A j \in 1..Len(ds) :
                  /\ IsDelta(frames'[Len(frames) + j])
                  /\ frames'[Len(frames) + j].content = ds[j].content]_vars
  /\ []((readerDone /\ handler \in Handlers /\ ~cancelled /\ ~dbFailed) =>
          /\ Len(frames) >= 2
          /\ Last(frames) = DoneFrame
          /\ frames[Len(frames) - 1] = FinalChunk
          /\ \A k \in 1..(Len(frames) - 2) : frames[k] \notin {FinalChunk, DoneFrame}
          /\ assistantContent = Concat(Deltas(frames))
          /\ \A i \in AssistantRows :
               dbMessages[i].content = Trim(Concat(Deltas(frames))))

\* C27 witness: a content line and an empty done=true line gave one delta,
\* then the final chunk and [DONE], and the content was stored.
C27_Witness ==
  /\ handler \in Handlers /\ ~cancelled
  /\ response = Wire(<< << "{", "a", "." >>, << "{", "!" >> >>)
  /\ readerDone
  /\ Deltas(frames) = << << "a" >> >>
  /\ frames[Len(frames) - 1] = FinalChunk
  /\ \E i \in AssistantRows : dbMessages[i].content = << "a" >>

\* C28 (as claimed): on every termination path of the transform (a line with
\* done=true, or the source reader exhausted) the output stream ends with
\* [DONE] and is closed once start() has ended.
C28_TransformClosesOutput ==
  (handler = "stream.ts" /\ pc = "end" /\ (doneSeen \/ readerDone)) =>
    /\ frames # <<>>
    /\ Last(frames) = DoneFrame
    /\ closed

\* C29 (as claimed): a closed response stream has exactly one frame with
\* finish_reason "stop"; it is the frame before [DONE], and every content
\* delta before it has finish_reason null.
C29_ExactlyOneStopFrame ==
  (closed /\ frames # <<>>) =>
    /\ Len(frames) >= 2
    /\ Last(frames) = DoneFrame
    /\ frames[Len(frames) - 1].finish_reason = "stop"
    /\ \A k \in 1..(Len(frames) - 2) : frames[k].finish_reason # "stop"
    /\ \A k \in 1..(Len(frames) - 2) :
         IsDelta(frames[k]) => frames[k].finish_reason = "null"

\* The texts of the lines of a backend byte stream that give a delta, the
\* piece after the last newline included: for the handlers the valid lines
\* with non-empty content, for the transform every valid line.
ContentOfLines(h, resp) ==
  LET kept == SelectSeq(Split(resp),
                        LAMBDA l : /\ JSONParse(l).ok
                                   /\ (h = "stream.ts" \/ JSONParse(l).content # <<>>))
  IN [i \in 1..Len(kept) |-> JSONParse(kept[i]).content]

\* C30 (as claimed): no content-bearing backend line is lost at the end of the
\* stream.  When the reader has reported done (no done=true line seen, client
\* connected, writes accepted), the deltas sent are the contents of all the
\* lines of the byte stream, a last line without newline included; the
\* handlers have accumulated them all and stored them.
C30_LastLineWithoutNewlineKept ==
  (readerDone /\ ~doneSeen /\ ~cancelled /\ ~dbFailed) =>
    /\ Deltas(frames) = ContentOfLines(handler, response)
    /\ handler \in Handlers =>
         /\ assistantContent = Concat(ContentOfLines(handler, response))
         /\ Trim(assistantContent) # <<>> =>
              \E i \in AssistantRows :
                dbMessages[i].content = Trim(Concat(ContentOfLines(handler, response)))

\* C31 (as claimed): when part_018 classifies a user message containing a
\* four-digit year that no earlier message of the conversation contains, the
\* classifier's year predicate fires for the history it was handed.
C31_OwnYearCountsAsNew ==
  \A n \in { Len(calls) } \ { 0 } :
    LET message == calls[n].message
        year == FirstMatch(YearPattern, FALSE, message)
    IN (/\ Test(YearPattern, FALSE, message)
        /\ \A i \in 1..(Len(messages) - 1) : ~Includes(messages[i].content, year))
       => MediumConfidenceIndicators(message, calls[n].history)[3]

\* A preposition that introduces a place, as a word of its own.
NamesLocation(message) ==
  Test(<< WordBoundary, Alt({Chars("in"), Chars("at"), Chars("for")}),
          WordBoundary >>, TRUE, message)

\* C32 (as claimed): for a message that mentions weather, temperature or
\* forecast and names no location, the search query returned is the original
\* message with only its trailing question mark removed.
C32_WeatherWithoutLocationKept ==
  \A n \in { Len(calls) } \ { 0 } :
    LET message == calls[n].message IN
    (/\ calls[n].result.shouldSearch
     /\ Test(WeatherPattern, TRUE, message)
     /\ ~NamesLocation(message))
    => calls[n].result.searchQuery = Trim(StripQuestionMark(message))

\* C33 (as claimed): when the hook has read the response to its end, its
\* accumulated assistant content is the concatenation of all content deltas
\* the server emitted, and it is the content of the message appended to the
\* thread, however the bytes were split across reads.
C33_ClientContentEqualsDeltas ==
  readerDone =>
    /\ assistantContent = Concat(Deltas(frames))
    /\ assistantContent # <<>> =>
         messages[Len(messages)] =
           [role |-> "assistant", content |-> Concat(Deltas(frames))]

\* C34: after any sequence of markUnread, markRead, subscribe and unsubscribe
\* calls, hasUnread(id) is true exactly when the latest mark call for id was
\* markUnread, the snapshot last delivered to each subscribed listener is the
\* current unread set, and the latest call has notified no listener whose
\* unsubscribe function was called.
C34_UnreadStoreConsistent ==
  /\ \A id \in ConversationIds :
       HasUnread(id) <=> lastMark[id] = "markUnread"
  /\ \A l \in listeners : lastSnapshot[l] = << unreadConversations >>
  /\ notified \cap unsubscribed = {}

\* One conversation was marked unread and then read, the other is unread; one
\* listener still listens and holds the current set, the other has
\* unsubscribed and holds an older one.
C34_Witness ==
  /\ lastMark["conv-1"] = "markRead"
  /\ lastMark["conv-2"] = "markUnread"
  /\ unreadConversations = {"conv-2"}
  /\ listeners = {"listener-1"}
  /\ lastSnapshot["listener-1"] = << {"conv-2"} >>
  /\ "listener-2" \in unsubscribed
  /\ lastSnapshot["listener-2"] = << {"conv-1"} >>

====
